---------------------------- MODULE Spec2Model ----------------------------
(***************************************************************************)
(* A model of trim-telemetry-python: the telemetry sink                    *)
(* (trim_telemetry/base_telemetry.py), the Django collector                *)
(* (trim_telemetry/django/telemetry.py), the Django and unittest runners   *)
(* (trim_telemetry/django/runner.py, trim_telemetry/unittest/runner.py)    *)
(* and the signal handling of TrimTelemetryRunner.run_tests                *)
(* (trim_telemetry/django_runner.py).                                      *)
(*                                                                         *)
(* Each subsystem has its own specification over its own variables; the    *)
(* variables of the other subsystems stay at their initial values.         *)
(***************************************************************************)
EXTENDS Integers, Sequences, FiniteSets, TLC

VARIABLES
    \* ---- the sink: the file system, standard output, the collectors ----
    file_exists,      \* os.path.exists(<run_id>.ndjson)
    file_lines,       \* the lines of <run_id>.ndjson, oldest first
    stdout_lines,     \* the lines printed on standard output
    telemetry_file,   \* per collector: self.telemetry_file ("unset", "path", "none")
    ctor_pc,          \* per collector: position inside __init__/_ensure_telemetry_file
    writes,           \* number of _write_telemetry calls made so far
    last_write,       \* the last _write_telemetry call and how it ended
    \* ---- DjangoTelemetryCollector and the globals it reads and patches ----
    test_status,         \* self.test_status: "running" or "absent" per test_id
    test_timings,        \* self.test_timings: the start time per test_id, if any
    test_queries,        \* self.test_queries: the watermark per test_id, if any
    test_network_calls,  \* self.test_network_calls: per test_id a dict with
                         \* its "calls" list, None, or no entry
    urlopen,             \* urllib.request.urlopen: "real" or "tracked"
    trim_telemetry_patched,  \* hasattr(urllib.request, "_trim_telemetry_patched")
    original_urlopen,    \* urllib.request._original_urlopen, or "unset"
    queries,             \* connection.queries, the global query log
    nq,                  \* queries executed so far (numbers the log entries)
    ncalls,              \* urlopen calls made so far
    nstarts,             \* start_test calls made so far
    scope_queries,       \* history: the queries executed since start_test, per scope
    scope_calls,         \* history: the urls opened since start_test, per scope
    overlapped,          \* history: start_test has run while another scope was running
    last_op,             \* the last operation on the collector or its globals
    last_end,            \* the last end_test call: its scope and what it returned
    now,                 \* time.time(), in milliseconds since the collector was built
    connection_ok,       \* connection.queries can be read
    last_call,           \* the last urlopen call: what it forwarded and returned
    \* ---- the host's TestResult and suite loop (unittest.TextTestResult) ----
    testsRun,            \* result.testsRun
    failures,            \* result.failures: the test ids, in order
    errors,              \* result.errors
    skipped,             \* result.skipped
    h_cur,               \* the test between startTest and stopTest, or "none"
    h_outcomes,          \* the add* callbacks delivered for h_cur so far
    h_done,              \* the tests whose stopTest has returned
    run_phase,           \* "running" until the runner has written its summary
    \* ---- TrimTelemetryRunner.run_tests ----
    tr_pc,               \* position inside run_tests
    summary_data,        \* the local summary_data the signal handler closes over
    tr_exit,             \* how run_tests was left: "return", "exception", "signal"
    tr_signal_at,        \* where run_tests was when a signal arrived, or "none"
    test_durations,      \* runner.test_durations, in tenths of a millisecond
    network_call_attempts,  \* telemetry_collector.network_call_attempts
    socket_socket,       \* socket.socket: "real" or "blocked"
    original_socket,     \* the value block_network_calls returned, or "unset"
    last_socket,         \* the last call of socket.socket and how it ended
    agg_last,            \* the last call of an aggregation function and its result
    \* ---- InstrumentedTestResult of TrimTelemetryRunner.run_suite ----
    test_query_counts,   \* runner.test_query_counts: len(connection.queries) at startTest
    current_test_start,  \* telemetry_collector.current_test_start, or None
    result_status,       \* InstrumentedTestResult.test_status per test, if any
    last_stop,           \* the last stopTest call and how it ended
    started_nq,          \* history: queries executed before the running test's startTest
    \* ---- the collector of trim_telemetry/django_telemetry.py ----
    ps_urlopen,          \* urllib.request.urlopen: the real function or a wrapper
    ps_network_calls,    \* self.test_network_calls: calls and original_urlopen
    ps_last_call,        \* the last urlopen call and how it ended
    \* ---- a tracked_urlopen call in flight on a thread of its own ----
    tracked_call,        \* where the call is, what it iterates over, how it ended
    \* ---- BaseTelemetryCollector of base_collector.py driven directly ----
    test_results,        \* self.test_results: the records end_test appended
    last_end_test,       \* the last end_test call and how it ended
    \* ---- TrimTelemetryRunner instances and the socket they patch ----
    runner_pc,           \* per runner: position in __init__ / run_tests
    self_original_socket,  \* per runner: self.original_socket, or "unset"
    runner_exit          \* per runner: how its run_tests was left

sinkVars == <<file_exists, file_lines, stdout_lines, telemetry_file, ctor_pc,
              writes, last_write>>

collVars == <<test_status, test_timings, test_queries, test_network_calls,
              urlopen, trim_telemetry_patched, original_urlopen, queries, nq,
              ncalls, nstarts, scope_queries, scope_calls, overlapped, last_op,
              last_end, now, connection_ok, last_call>>

hostVars == <<testsRun, failures, errors, skipped, h_cur, h_outcomes, h_done,
              run_phase>>

runVars == <<tr_pc, summary_data, tr_exit, tr_signal_at>>

blockVars == <<network_call_attempts, socket_socket, original_socket, last_socket>>

aggVars == <<test_durations, blockVars, agg_last>>

itrVars == <<test_query_counts, current_test_start, result_status, last_stop,
             started_nq>>

psVars == <<ps_urlopen, ps_network_calls, ps_last_call>>

thVars == <<tracked_call>>

bcVars == <<test_results, last_end_test, runner_pc, self_original_socket,
            runner_exit>>

trimVars == <<runVars, aggVars, itrVars, psVars, thVars, bcVars>>

vars == <<sinkVars, collVars, hostVars, trimVars>>

-----------------------------------------------------------------------------
(* Bounds *)

MaxWrites == 3
MaxQueries == 2
MaxCalls == 2
MaxStarts == 3
MaxClock == 2
MaxTrimTests == 2
MaxDurations == 3
MaxAttempts == 2
MaxEndTests == 2

-----------------------------------------------------------------------------
(* The sink: BaseTelemetryCollector.__init__, _ensure_telemetry_file,      *)
(* _write_telemetry                                                        *)

\* Two collectors constructed with the same run_id (two processes started
\* within the same second share run_<%Y%m%d_%H%M%S>.ndjson).
Procs == {"p1", "p2"}

\* The payloads handed to _write_telemetry in the sink specification.
Payloads == {[id |-> "r1"], [id |-> "r2"]}

\* json.dumps(data): the serialised text of a record.
JsonDumps(data) == <<"{", data, "}">>

\* f.write(json.dumps(data) + "\n"): a complete line of the file.
FileLine(data) == JsonDumps(data) \o <<"\n">>

\* What reaches the file when the write fails part-way: a line cut short.
PartialLine(data) == SubSeq(FileLine(data), 1, 2)

\* print(json.dumps(data), flush=True): the text followed by the line end.
PrintLine(data) == JsonDumps(data) \o <<"\n">>

\* How open(file, "a") / f.write / f.flush / close can end.
FileOutcomes == {"ok", "open_fail", "write_partial", "close_fail"}

\* How print(...) can end: "fail_once" fails the first attempt only.
StdoutOutcomes == {"ok", "fail_once", "fail"}

NoWrite == [proc |-> "none", data |-> [id |-> "none"], file |-> "none",
            stdout |-> "none", printed |-> FALSE, raised |-> FALSE]

\* __init__ up to the first os.path.exists(self.telemetry_file) test of
\* _ensure_telemetry_file: the file is there, or it is not and the collector
\* goes on to create it.
EnsureCheck(c) ==
    /\ ctor_pc[c] = "new"
    /\ telemetry_file' = [telemetry_file EXCEPT ![c] = "path"]
    /\ ctor_pc' = [ctor_pc EXCEPT ![c] = IF file_exists THEN "ready" ELSE "creating"]
    /\ UNCHANGED <<file_exists, file_lines, stdout_lines, writes, last_write>>

\* with open(self.telemetry_file, "w"): creates the file, or empties it.
EnsureCreate(c) ==
    /\ ctor_pc[c] = "creating"
    /\ file_exists' = TRUE
    /\ file_lines' = <<>>
    /\ ctor_pc' = [ctor_pc EXCEPT ![c] = "ready"]
    /\ UNCHANGED <<stdout_lines, telemetry_file, writes, last_write>>

\* except Exception: self.telemetry_file = None (makedirs or open failed).
EnsureFail(c) ==
    /\ ctor_pc[c] \in {"new", "creating"}
    /\ telemetry_file' = [telemetry_file EXCEPT ![c] = "none"]
    /\ ctor_pc' = [ctor_pc EXCEPT ![c] = "ready"]
    /\ UNCHANGED <<file_exists, file_lines, stdout_lines, writes, last_write>>

\* The file after the try block of _write_telemetry.
FileAfter(lines, data, fo) ==
    CASE fo = "ok" -> Append(lines, FileLine(data))
      [] fo = "close_fail" -> Append(lines, FileLine(data))
      [] fo = "write_partial" -> Append(lines, PartialLine(data))
      [] OTHER -> lines

\* A faulty variant of _write_telemetry: the except branch drops the record.
WriteTelemetry_NoFallback(c, data, fo, so) ==
    LET toFile == telemetry_file[c] = "path"
    IN  /\ file_lines' = IF toFile THEN FileAfter(file_lines, data, fo) ELSE file_lines
        /\ file_exists' = IF toFile /\ fo # "open_fail" THEN TRUE ELSE file_exists
        /\ stdout_lines' = IF ~toFile /\ so = "ok"
                           THEN Append(stdout_lines, PrintLine(data))
                           ELSE stdout_lines
        /\ last_write' = [proc |-> c, data |-> data,
                          file |-> IF toFile THEN fo ELSE "none",
                          stdout |-> so,
                          printed |-> ~toFile /\ so = "ok",
                          raised |-> FALSE]

\* _write_telemetry(data): the try block writes to the file when the
\* collector has one, else prints; on any exception the except block prints,
\* and an exception of that print leaves the function.
WriteTelemetry(c, data, fo, so) ==
    LET toFile == telemetry_file[c] = "path"
        tryOk == IF toFile THEN fo = "ok" ELSE so = "ok"
        \* the print of the except block succeeds
        exceptOk == IF toFile THEN so = "ok" ELSE so = "fail_once"
        printed == (~toFile /\ so = "ok") \/ (~tryOk /\ exceptOk)
    IN  /\ file_lines' = IF toFile THEN FileAfter(file_lines, data, fo) ELSE file_lines
        /\ file_exists' = IF toFile /\ fo # "open_fail" THEN TRUE ELSE file_exists
        /\ stdout_lines' = IF printed
                           THEN Append(stdout_lines, PrintLine(data))
                           ELSE stdout_lines
        /\ last_write' = [proc |-> c, data |-> data,
                          file |-> IF toFile THEN fo ELSE "none",
                          stdout |-> so,
                          printed |-> printed,
                          raised |-> ~tryOk /\ ~exceptOk]

\* output_test_telemetry / output_test_summary of a constructed collector.
SinkWrite(c) ==
    /\ ctor_pc[c] = "ready"
    /\ writes < MaxWrites
    /\ \E data \in Payloads, fo \in FileOutcomes, so \in StdoutOutcomes :
           WriteTelemetry(c, data, fo, so)
    /\ writes' = writes + 1
    /\ UNCHANGED <<telemetry_file, ctor_pc>>

SinkInit ==
    /\ file_exists = FALSE
    /\ file_lines = <<>>
    /\ stdout_lines = <<>>
    /\ telemetry_file = [c \in Procs |-> "unset"]
    /\ ctor_pc = [c \in Procs |-> "new"]
    /\ writes = 0
    /\ last_write = NoWrite

-----------------------------------------------------------------------------
(* DjangoTelemetryCollector (trim_telemetry/django/telemetry.py) on top of *)
(* BaseTelemetryCollector (trim_telemetry/base_telemetry.py)               *)

Tests == {"t1", "t2"}

\* str(test) of the unittest._ErrorHolder a host passes to addError when
\* setUpClass / setUpModule fails: no startTest precedes it.
ErrorHolder == "setUpClass (C)"

\* The keys the collector's maps can hold.
TestIds == Tests \cup {ErrorHolder}

Urls == {"u1", "u2"}

\* A key that is not in a dict.
Absent == "absent"

\* A query-log entry without a "time" key.
Missing == "<missing>"

\* The entries the host appends to connection.queries: {sql, time}.
QueryInputs ==
    { [sql |-> "SELECT 1",  time |-> "0.002"],
      [sql |-> "select 1 ", time |-> "abc"],
      [sql |-> "UPDATE t",  time |-> "0.001"],
      [sql |-> "UPDATE t",  time |-> Missing] }

\* The entries whose time is a number.
WellFormedInputs == {q \in QueryInputs : q.time \in {"0.002", "0.001"}}

\* Entries no database backend writes, injected into the log: one that is
\* not a mapping (query.get raises AttributeError) and one whose sql is None
\* (.upper() raises AttributeError).
BadEntries ==
    { [sql |-> "<not a mapping>", time |-> "<not a mapping>"],
      [sql |-> "<None>", time |-> "0.001"] }

\* float(duration_raw) in milliseconds (the code keeps seconds and multiplies
\* by 1000 before rounding); "raises" stands for ValueError / TypeError.
Float(text) ==
    CASE text = "0.001" -> [raises |-> FALSE, ms |-> 1]
      [] text = "0.002" -> [raises |-> FALSE, ms |-> 2]
      [] text = "0.2" -> [raises |-> FALSE, ms |-> 200]
      [] OTHER -> [raises |-> TRUE, ms |-> 0]

\* duration_raw = query.get("time", 0); float(duration_raw) if duration_raw
\* else 0, with ValueError / TypeError giving 0.
Duration(query) ==
    IF query.time = Missing THEN 0
    ELSE IF Float(query.time).raises THEN 0
    ELSE Float(query.time).ms

\* query.get("sql", "").upper().strip()[:100]
Signature(sql) ==
    CASE sql = "SELECT 1" -> "SELECT 1"
      [] sql = "select 1 " -> "SELECT 1"
      [] sql = "UPDATE t" -> "UPDATE T"
      [] OTHER -> sql

\* d.get(key, default) on a dict modelled as a record.
DictGet(d, key, default) == IF key \in DOMAIN d THEN d[key] ELSE default

\* _get_empty_database_telemetry()
EmptyDatabaseTelemetry ==
    [count |-> 0, total_duration_ms |-> 0, queries |-> <<>>,
     duplicate_queries |-> <<>>,
     query_types |->
         [verb \in {"SELECT", "INSERT", "UPDATE", "DELETE", "OTHER"} |-> 0],
     avg_duration_ms |-> 0, max_duration_ms |-> 0]

\* A faulty variant of the slice: the watermark is ignored.
SliceFrom_Whole(log, initial_count) == log

\* current_queries[initial_count:]
SliceFrom(log, initial_count) ==
    IF initial_count >= Len(log) THEN <<>>
    ELSE SubSeq(log, initial_count + 1, Len(log))

\* The slice of the log _collect_database_telemetry reduces for test_id.
TestQueriesSlice(t) ==
    SliceFrom(queries, IF test_queries[t].has THEN test_queries[t].count ELSE 0)

\* First pass of _collect_database_telemetry: query_signatures, as the list
\* of its items in insertion order.
RECURSIVE QuerySignatures(_, _)
QuerySignatures(slice, acc) ==
    IF slice = <<>> THEN acc
    ELSE LET query == Head(slice)
             sig == Signature(query.sql)
             hit == {i \in 1..Len(acc) : acc[i].signature = sig}
         IN  IF hit # {}
             THEN LET i == CHOOSE j \in hit : TRUE
                  IN  QuerySignatures(Tail(slice),
                          [acc EXCEPT ![i].count = @ + 1,
                                      ![i].total_duration = @ + Duration(query)])
             ELSE QuerySignatures(Tail(slice),
                      Append(acc, [signature |-> sig, sql |-> query.sql,
                                   count |-> 1,
                                   total_duration |-> Duration(query)]))

\* Second pass: all_queries.
AllQueries(sigs) ==
    [i \in 1..Len(sigs) |->
        [sql |-> sigs[i].sql, total_duration_ms |-> sigs[i].total_duration,
         count |-> sigs[i].count]]

\* A faulty variant of _collect_database_telemetry: no except clause, so the
\* exception of reading the log or of reducing an entry leaves the function
\* (the answer [raised |-> TRUE]).
CollectDatabaseTelemetry_Unguarded(t) ==
    IF ~connection_ok THEN [raised |-> TRUE]
    ELSE IF TestQueriesSlice(t) = <<>> THEN EmptyDatabaseTelemetry
    ELSE IF \E i \in 1..Len(TestQueriesSlice(t)) :
                \E bad \in BadEntries : TestQueriesSlice(t)[i].sql = bad.sql
    THEN [raised |-> TRUE]
    ELSE [queries |-> AllQueries(QuerySignatures(TestQueriesSlice(t), <<>>))]

\* DjangoTelemetryCollector._collect_database_telemetry(test_id): the empty
\* structure when the log cannot be read, when the slice is empty and when
\* reducing an entry raises (the except clause); else a dict holding
\* "queries" only.
CollectDatabaseTelemetry(t) ==
    IF ~connection_ok \/ TestQueriesSlice(t) = <<>>
    THEN EmptyDatabaseTelemetry
    ELSE IF \E i \in 1..Len(TestQueriesSlice(t)) :
                \E bad \in BadEntries : TestQueriesSlice(t)[i].sql = bad.sql
    THEN EmptyDatabaseTelemetry
    ELSE [queries |-> AllQueries(QuerySignatures(TestQueriesSlice(t), <<>>))]

\* BaseTelemetryCollector._collect_network_telemetry(test_id): the entry's
\* calls; None (AttributeError) and a missing entry give the zero answer.
CollectNetworkTelemetry(t) ==
    IF test_network_calls[t].st = "dict"
    THEN [total_calls |-> Len(test_network_calls[t].calls),
          urls |-> test_network_calls[t].calls]
    ELSE [total_calls |-> 0, urls |-> <<>>]

\* The record BaseTelemetryCollector.end_test builds and returns.
TestTelemetry(t, status) ==
    LET database_telemetry == CollectDatabaseTelemetry(t)
        network_telemetry == CollectNetworkTelemetry(t)
        end_time == now
        start_time == IF test_timings[t].has THEN test_timings[t].at ELSE end_time
        query_types == DictGet(database_telemetry, "query_types", [verb \in {} |-> 0])
    IN  [id |-> t,
         status |-> status,
         test_duration_ms |-> end_time - start_time,
         start_time |-> start_time,
         end_time |-> end_time,
         db_count |-> DictGet(database_telemetry, "count", 0),
         db_total_duration_ms |-> DictGet(database_telemetry, "total_duration_ms", 0),
         db_queries |-> DictGet(database_telemetry, "queries", <<>>),
         db_duplicate_queries |->
             DictGet(database_telemetry, "duplicate_queries", <<>>),
         db_select_count |-> DictGet(query_types, "SELECT", 0),
         db_insert_count |-> DictGet(query_types, "INSERT", 0),
         db_update_count |-> DictGet(query_types, "UPDATE", 0),
         db_delete_count |-> DictGet(query_types, "DELETE", 0),
         db_other_count |-> DictGet(query_types, "OTHER", 0),
         db_avg_duration_ms |-> DictGet(database_telemetry, "avg_duration_ms", 0),
         db_max_duration_ms |-> DictGet(database_telemetry, "max_duration_ms", 0),
         net_total_calls |-> DictGet(network_telemetry, "total_calls", 0),
         net_urls |-> DictGet(network_telemetry, "urls", <<>>)]

NoEntry == [st |-> Absent, calls |-> <<>>]

\* No entry in self.test_timings.
NoTiming == [has |-> FALSE, at |-> 0]

\* No entry in self.test_queries.
NoWatermark == [has |-> FALSE, count |-> 0]

NoEnd == [test |-> "none", was_running |-> FALSE, others |-> {},
          slice |-> <<>>, during |-> <<>>, opened |-> <<>>, unreadable |-> FALSE,
          raised |-> FALSE,
          record |-> [id |-> "none"]]

\* A faulty variant of _cleanup_test_data: the network entry is kept.
CleanupNetworkCalls_Keeps(calls, t) == calls

\* BaseTelemetryCollector._cleanup_test_data(test_id): the network entries
\* after the del.
CleanupNetworkCalls(calls, t) == [calls EXCEPT ![t] = NoEntry]

\* A faulty variant of stop_network_monitoring: restores whenever it is called.
StopNetworkMonitoring_AlwaysRestore(calls, t) ==
    [calls |-> calls, urlopen |-> "real", patched |-> FALSE, original |-> "unset"]

\* DjangoTelemetryCollector.stop_network_monitoring(test_id) on the network
\* entries `calls`: marks the entry None when there is one, and restores
\* urlopen when no entry is left active.
StopNetworkMonitoring(calls, t) ==
    IF calls[t].st = Absent
    THEN [calls |-> calls, urlopen |-> urlopen,
          patched |-> trim_telemetry_patched, original |-> original_urlopen]
    ELSE LET marked == [calls EXCEPT ![t] = [st |-> "none", calls |-> <<>>]]
             active_tests == {tid \in TestIds : marked[tid].st = "dict"}
         IN  IF active_tests = {} /\ original_urlopen # "unset"
             THEN [calls |-> marked, urlopen |-> original_urlopen,
                   patched |-> FALSE, original |-> "unset"]
             ELSE [calls |-> marked, urlopen |-> urlopen,
                   patched |-> trim_telemetry_patched,
                   original |-> original_urlopen]

\* A faulty variant of start_network_monitoring: it saves the current
\* urlopen without asking whether the patch is already in place.
StartNetworkMonitoring_AlwaysSaves(calls, t) ==
    [calls |-> [calls EXCEPT ![t] = [st |-> "dict", calls |-> <<>>]],
     urlopen |-> "tracked", patched |-> TRUE, original |-> urlopen]

\* DjangoTelemetryCollector.start_network_monitoring(test_id) on the network
\* entries `calls`: a fresh entry, the original saved unless the patch is
\* already in place, and a new tracked_urlopen installed.
StartNetworkMonitoring(calls, t) ==
    [calls |-> [calls EXCEPT ![t] = [st |-> "dict", calls |-> <<>>]],
     urlopen |-> "tracked",
     patched |-> TRUE,
     original |-> IF trim_telemetry_patched THEN original_urlopen ELSE urlopen]

\* DjangoTelemetryCollector.start_test(test): the base class's start_test,
\* the watermark, start_network_monitoring, then reset_queries(). When the
\* log cannot be read, len(connection.queries) raises after the base class
\* has made its entries, and the exception leaves start_test.
StartTestOp(t) ==
    /\ test_status' = [test_status EXCEPT ![t] = "running"]
    /\ test_timings' = [test_timings EXCEPT ![t] = [has |-> TRUE, at |-> now]]
    /\ scope_queries' = [scope_queries EXCEPT ![t] = <<>>]
    /\ scope_calls' = [scope_calls EXCEPT ![t] = <<>>]
    /\ overlapped' = (overlapped \/ \E u \in TestIds \ {t} : test_status[u] = "running")
    /\ IF connection_ok
       THEN /\ test_queries' = [test_queries EXCEPT
                                   ![t] = [has |-> TRUE, count |-> Len(queries)]]
            /\ LET started == StartNetworkMonitoring(test_network_calls, t)
               IN  /\ test_network_calls' = started.calls
                   /\ original_urlopen' = started.original
                   /\ trim_telemetry_patched' = started.patched
                   /\ urlopen' = started.urlopen
            /\ queries' = <<>>
            /\ last_op' = "start_test"
       ELSE /\ test_queries' = [test_queries EXCEPT ![t] = [has |-> TRUE, count |-> 0]]
            /\ test_network_calls' =
                   [test_network_calls EXCEPT ![t] = [st |-> "list", calls |-> <<>>]]
            /\ last_op' = "start_test_raised"
            /\ UNCHANGED <<original_urlopen, trim_telemetry_patched, urlopen, queries>>
    /\ UNCHANGED <<nq, ncalls, last_end, now, connection_ok, last_call>>

\* DjangoTelemetryCollector.end_test(test, status): the base class's
\* end_test (collect, build the record, _cleanup_test_data), then
\* stop_network_monitoring.
EndTestOp(t, status) ==
    LET stopped == StopNetworkMonitoring(
                       CleanupNetworkCalls(test_network_calls, t), t)
    IN  /\ last_end' = [test |-> t,
                        was_running |-> test_status[t] = "running",
                        others |-> {u \in TestIds \ {t} : test_status[u] = "running"},
                        slice |-> TestQueriesSlice(t),
                        during |-> scope_queries[t],
                        opened |-> scope_calls[t],
                        unreadable |-> ~connection_ok,
                        raised |-> "raised" \in DOMAIN CollectDatabaseTelemetry(t),
                        record |-> TestTelemetry(t, status)]
        /\ test_status' = [test_status EXCEPT ![t] = Absent]
        /\ test_timings' = [test_timings EXCEPT ![t] = NoTiming]
        /\ test_queries' = [test_queries EXCEPT ![t] = NoWatermark]
        /\ test_network_calls' = stopped.calls
        /\ urlopen' = stopped.urlopen
        /\ trim_telemetry_patched' = stopped.patched
        /\ original_urlopen' = stopped.original
        /\ scope_queries' = [scope_queries EXCEPT ![t] = <<>>]
        /\ scope_calls' = [scope_calls EXCEPT ![t] = <<>>]
        /\ last_op' = "end_test"
        /\ UNCHANGED <<queries, nq, ncalls, overlapped, now, connection_ok,
                       last_call>>

\* collector.start_test(test) called by a host.
StartTest(t) ==
    /\ nstarts < MaxStarts
    /\ nstarts' = nstarts + 1
    /\ StartTestOp(t)

\* collector.end_test(test, status) called by a host.
EndTest(t) ==
    /\ \E status \in {"passed", "failed"} : EndTestOp(t, status)
    /\ UNCHANGED nstarts

\* collector.start_network_monitoring(test_id) called on its own.
StartMonitoring(t) ==
    /\ nstarts < MaxStarts
    /\ nstarts' = nstarts + 1
    /\ LET started == StartNetworkMonitoring(test_network_calls, t)
       IN  /\ test_network_calls' = started.calls
           /\ original_urlopen' = started.original
           /\ trim_telemetry_patched' = started.patched
           /\ urlopen' = started.urlopen
    /\ last_op' = IF trim_telemetry_patched
                  THEN "start_network_monitoring_patched"
                  ELSE "start_network_monitoring"
    /\ UNCHANGED <<test_status, test_timings, test_queries, queries, nq, ncalls,
                   scope_queries, scope_calls, overlapped, last_end, now,
                   connection_ok, last_call>>

\* collector.stop_network_monitoring(test_id) called on its own.
StopMonitoring(t) ==
    /\ LET stopped == StopNetworkMonitoring(test_network_calls, t)
       IN  /\ test_network_calls' = stopped.calls
           /\ original_urlopen' = stopped.original
           /\ trim_telemetry_patched' = stopped.patched
           /\ urlopen' = stopped.urlopen
    /\ last_op' = IF urlopen = "tracked" /\ test_network_calls[t].st # Absent
                     /\ \A u \in TestIds \ {t} : test_network_calls[u].st # "dict"
                  THEN "stop_network_monitoring_restored"
                  ELSE "stop_network_monitoring"
    /\ UNCHANGED <<test_status, test_timings, test_queries, queries, nq, ncalls,
                   nstarts, scope_queries, scope_calls, overlapped, last_end,
                   now, connection_ok, last_call>>

\* The host executes a query: Django appends {sql, time} to the log; inputs
\* are the entries that can be appended.
ExecuteQuery(inputs) ==
    /\ nq < MaxQueries
    /\ connection_ok
    /\ \E q \in inputs :
           LET entry == [qid |-> nq + 1, sql |-> q.sql, time |-> q.time]
           IN  /\ queries' = Append(queries, entry)
               /\ scope_queries' =
                      [t \in TestIds |->
                          IF test_status[t] = "running"
                          THEN Append(scope_queries[t], entry)
                          ELSE scope_queries[t]]
    /\ nq' = nq + 1
    /\ last_op' = "query"
    /\ UNCHANGED <<test_status, test_timings, test_queries, test_network_calls,
                   urlopen, trim_telemetry_patched, original_urlopen, ncalls,
                   nstarts, scope_calls, overlapped, last_end, now,
                   connection_ok, last_call>>

\* The connection goes away: connection.queries can no longer be read.
LoseConnection ==
    /\ connection_ok
    /\ connection_ok' = FALSE
    /\ last_op' = "lose_connection"
    /\ UNCHANGED <<test_status, test_timings, test_queries, test_network_calls,
                   urlopen, trim_telemetry_patched, original_urlopen, queries,
                   nq, ncalls, nstarts, scope_queries, scope_calls, overlapped,
                   last_end, now, last_call>>

\* A faulty variant of the logging loop: only one entry gets the url.
TrackedAppend_OneScope(calls, url) ==
    IF \E t \in TestIds : calls[t].st = "dict"
    THEN LET one == CHOOSE t \in TestIds : calls[t].st = "dict"
         IN  [calls EXCEPT ![one].calls = Append(@, url)]
    ELSE calls

\* tracked_urlopen: the entries after a call that returned.
TrackedAppend(calls, url) ==
    [t \in TestIds |->
        IF calls[t].st = "dict"
        THEN [calls[t] EXCEPT !.calls = Append(@, url)]
        ELSE calls[t]]

\* How a call of the real urlopen ends: with a response, or by raising.
RealOutcomes == {"response1", "response2", "raised"}

\* A faulty variant of tracked_urlopen: it logs the url before it forwards.
TrackedUrlopen_LogsFirst(calls, url, real) ==
    [forwarded |-> 1, calls |-> TrackedAppend(calls, url), outcome |-> real]

\* tracked_urlopen(url) when the original it forwards to ends with `real`:
\* one call of the original, then the url logged for every entry that is not
\* None, then the result returned; an exception of the original propagates
\* before anything is logged.
TrackedUrlopen(calls, url, real) ==
    [forwarded |-> 1,
     calls |-> IF real = "raised" THEN calls ELSE TrackedAppend(calls, url),
     outcome |-> real]

\* Code under test calls urllib.request.urlopen(url): the real function, or
\* tracked_urlopen.
Urlopen ==
    /\ ncalls < MaxCalls
    /\ ncalls' = ncalls + 1
    /\ \E url \in Urls, real \in RealOutcomes :
           LET call == IF urlopen = "tracked"
                       THEN TrackedUrlopen(test_network_calls, url, real)
                       ELSE [forwarded |-> 1, calls |-> test_network_calls,
                             outcome |-> real]
           IN  /\ test_network_calls' = call.calls
               /\ scope_calls' =
                      [t \in TestIds |->
                          IF test_status[t] = "running" /\ real # "raised"
                          THEN Append(scope_calls[t], url)
                          ELSE scope_calls[t]]
               /\ last_call' = [via |-> urlopen, url |-> url, real |-> real,
                                forwarded |-> call.forwarded,
                                outcome |-> call.outcome,
                                recorded |-> {t \in TestIds :
                                    call.calls[t] # test_network_calls[t]}]
               /\ last_op' = IF real # "raised" THEN "urlopen" ELSE "urlopen_raised"
    /\ UNCHANGED <<test_status, test_timings, test_queries, urlopen,
                   trim_telemetry_patched, original_urlopen, queries, nq,
                   nstarts, scope_queries, overlapped, last_end, now,
                   connection_ok>>

\* time.time() advances.
Tick ==
    /\ now < MaxClock
    /\ now' = now + 1
    /\ last_op' = "tick"
    /\ UNCHANGED <<test_status, test_timings, test_queries, test_network_calls,
                   urlopen, trim_telemetry_patched, original_urlopen, queries,
                   nq, ncalls, nstarts, scope_queries, scope_calls, overlapped,
                   last_end, connection_ok, last_call>>

\* DjangoTelemetryCollector.__init__: empty maps, reset_queries(); urlopen
\* is the real function.
CollectorInit ==
    /\ test_status = [t \in TestIds |-> Absent]
    /\ test_timings = [t \in TestIds |-> NoTiming]
    /\ test_queries = [t \in TestIds |-> NoWatermark]
    /\ test_network_calls = [t \in TestIds |-> NoEntry]
    /\ urlopen = "real"
    /\ trim_telemetry_patched = FALSE
    /\ original_urlopen = "unset"
    /\ queries = <<>>
    /\ nq = 0
    /\ ncalls = 0
    /\ nstarts = 0
    /\ scope_queries = [t \in TestIds |-> <<>>]
    /\ scope_calls = [t \in TestIds |-> <<>>]
    /\ overlapped = FALSE
    /\ last_op = "init"
    /\ last_end = NoEnd
    /\ now = 0
    /\ connection_ok = TRUE
    /\ last_call = [via |-> "none"]

-----------------------------------------------------------------------------
(* The host: unittest's TestResult bookkeeping and the order in which it   *)
(* delivers its callbacks                                                  *)

\* The collector of the runner under test.
Runner == "p1"

\* The add* callbacks of a TestResult.
OutcomeKinds == {"success", "failure", "error", "skip", "expectedFailure",
                 "unexpectedSuccess"}

\* The host delivers one outcome callback per test, or addError (an error in
\* tearDown) after addFailure.
MayDeliver(kind) ==
    \/ h_outcomes = <<>>
    \/ h_outcomes = <<"failure">> /\ kind = "error"

\* TestResult.addFailure / addError / addSkip append to the result's lists;
\* the other callbacks leave the three lists alone.
HostRecord(t, kind) ==
    /\ failures' = IF kind = "failure" THEN Append(failures, t) ELSE failures
    /\ errors' = IF kind = "error" THEN Append(errors, t) ELSE errors
    /\ skipped' = IF kind = "skip" THEN Append(skipped, t) ELSE skipped

\* TestResult.startTest: testsRun += 1.
HostStartTest(t) ==
    /\ run_phase = "running"
    /\ ctor_pc[Runner] = "ready"
    /\ h_cur = "none"
    /\ t \notin h_done
    /\ testsRun' = testsRun + 1
    /\ h_cur' = t
    /\ h_outcomes' = <<>>
    /\ UNCHANGED <<failures, errors, skipped, h_done, run_phase>>

\* An add* callback for the running test.
HostOutcome(t, kind) ==
    /\ run_phase = "running"
    /\ h_cur = t
    /\ MayDeliver(kind)
    /\ HostRecord(t, kind)
    /\ h_outcomes' = Append(h_outcomes, kind)
    /\ UNCHANGED <<testsRun, h_cur, h_done, run_phase>>

\* TestResult.stopTest, after the outcome callbacks.
HostStopTest(t) ==
    /\ run_phase = "running"
    /\ h_cur = t
    /\ h_outcomes # <<>>
    /\ h_cur' = "none"
    /\ h_outcomes' = <<>>
    /\ h_done' = h_done \cup {t}
    /\ UNCHANGED <<testsRun, failures, errors, skipped, run_phase>>

\* A failing setUpClass: addError(_ErrorHolder) between tests, at most once.
HostClassSetupError ==
    /\ run_phase = "running"
    /\ ctor_pc[Runner] = "ready"
    /\ h_cur = "none"
    /\ ErrorHolder \notin {errors[i] : i \in 1..Len(errors)}
    /\ errors' = Append(errors, ErrorHolder)
    /\ UNCHANGED <<testsRun, failures, skipped, h_cur, h_outcomes, h_done,
                   run_phase>>

\* The suite has run; the runner goes on to its summary.
HostRunEnd ==
    /\ run_phase = "running"
    /\ ctor_pc[Runner] = "ready"
    /\ h_cur = "none"
    /\ run_phase' = "done"
    /\ UNCHANGED <<testsRun, failures, errors, skipped, h_cur, h_outcomes, h_done>>

HostInit ==
    /\ testsRun = 0
    /\ failures = <<>>
    /\ errors = <<>>
    /\ skipped = <<>>
    /\ h_cur = "none"
    /\ h_outcomes = <<>>
    /\ h_done = {}
    /\ run_phase = "running"

\* How a write of the runner's collector ends when the sink works: on the
\* file, or on standard output when the file cannot be opened.
RunnerFileOutcomes == {"ok", "open_fail"}

\* output_test_telemetry(test_telemetry) of the runner's collector.
OutputTestTelemetry(data) ==
    /\ \E fo \in RunnerFileOutcomes : WriteTelemetry(Runner, data, fo, "ok")
    /\ UNCHANGED <<telemetry_file, ctor_pc, writes>>

\* A faulty variant of the summary: exit_code is the number of failed tests.
SummaryData_ExitIsCount(total_tests, passed_tests, failed_tests, skipped_tests) ==
    [type |-> "test_run_summary",
     total_tests |-> total_tests,
     passed_tests |-> passed_tests,
     failed_tests |-> failed_tests,
     skipped_tests |-> skipped_tests,
     exit_code |-> failed_tests]

\* The dict output_test_summary builds.
SummaryData(total_tests, passed_tests, failed_tests, skipped_tests) ==
    [type |-> "test_run_summary",
     total_tests |-> total_tests,
     passed_tests |-> passed_tests,
     failed_tests |-> failed_tests,
     skipped_tests |-> skipped_tests,
     exit_code |-> IF failed_tests = 0 THEN 0 ELSE 1]

\* output_test_summary(total, passed, failed, skipped)
OutputTestSummary(total_tests, passed_tests, failed_tests, skipped_tests) ==
    OutputTestTelemetry(
        SummaryData(total_tests, passed_tests, failed_tests, skipped_tests))

-----------------------------------------------------------------------------
(* The Django runner (trim_telemetry/django/runner.py)                     *)

\* TelemetryTestResult.startTest
DjStartTest(t) ==
    /\ HostStartTest(t)
    /\ StartTestOp(t)
    /\ UNCHANGED <<nstarts, sinkVars, trimVars>>

\* The status TelemetryTestResult hands to end_test in each overridden add*.
DjStatus(kind) ==
    CASE kind = "success" -> "passed"
      [] kind = "error" -> "error"
      [] kind = "failure" -> "failed"
      [] kind = "skip" -> "skipped"

\* TelemetryTestResult.addSuccess / addError / addFailure / addSkip: the
\* host's bookkeeping, end_test, output_test_telemetry.
DjAddOutcome(t, kind) ==
    /\ kind \in {"success", "error", "failure", "skip"}
    /\ HostOutcome(t, kind)
    /\ EndTestOp(t, DjStatus(kind))
    /\ OutputTestTelemetry(TestTelemetry(t, DjStatus(kind)))
    /\ UNCHANGED <<nstarts, trimVars>>

\* addExpectedFailure / addUnexpectedSuccess: inherited, no telemetry.
DjAddInherited(t, kind) ==
    /\ kind \in {"expectedFailure", "unexpectedSuccess"}
    /\ HostOutcome(t, kind)
    /\ UNCHANGED <<sinkVars, collVars, trimVars>>

\* stopTest: inherited.
DjStopTest(t) ==
    /\ HostStopTest(t)
    /\ UNCHANGED <<sinkVars, collVars, trimVars>>

\* addError(_ErrorHolder, err) for a failing setUpClass: the overridden
\* addError runs end_test and writes a record for it.
DjClassSetupError ==
    /\ HostClassSetupError
    /\ EndTestOp(ErrorHolder, "error")
    /\ OutputTestTelemetry(TestTelemetry(ErrorHolder, "error"))
    /\ UNCHANGED <<nstarts, trimVars>>

\* What super().run_tests(test_labels) hands back: DiscoverRunner returns
\* self.suite_result(suite, result), which is the number of failures and
\* errors unless a suite_result returning the result object is in place.
SuperRunTestsResults == {"failure_count", "result"}

\* TelemetryTestRunner.run_tests after the suite: the summary, when what
\* came back has a testsRun attribute.
DjRunTestsEnd ==
    /\ HostRunEnd
    /\ \E result \in SuperRunTestsResults :
           IF result = "result"
           THEN LET total_tests == testsRun
                    failed_tests == Len(failures) + Len(errors)
                    skipped_tests == Len(skipped)
                    passed_tests == total_tests - failed_tests - skipped_tests
                IN  OutputTestSummary(total_tests, passed_tests, failed_tests,
                                      skipped_tests)
           ELSE UNCHANGED sinkVars
    /\ UNCHANGED <<collVars, trimVars>>

\* TelemetryTestRunner.__init__ constructs its collector.
RunnerConstruct ==
    /\ \/ EnsureCheck(Runner)
       \/ EnsureCreate(Runner)
       \/ EnsureFail(Runner)
    /\ UNCHANGED <<collVars, hostVars, trimVars>>

-----------------------------------------------------------------------------
(* The unittest runner (trim_telemetry/unittest/runner.py)                 *)

\* BaseTelemetryCollector.start_test, which UnittestTelemetryCollector
\* extends with test_start_times: status, timing, a zero query count and an
\* empty list of network calls.
BaseStartTestOp(t) ==
    /\ test_status' = [test_status EXCEPT ![t] = "running"]
    /\ test_timings' = [test_timings EXCEPT ![t] = [has |-> TRUE, at |-> now]]
    /\ test_queries' = [test_queries EXCEPT ![t] = [has |-> TRUE, count |-> 0]]
    /\ test_network_calls' =
           [test_network_calls EXCEPT ![t] = [st |-> "list", calls |-> <<>>]]
    /\ last_op' = "start_test"
    /\ UNCHANGED <<urlopen, trim_telemetry_patched, original_urlopen, queries,
                   nq, ncalls, nstarts, scope_queries, scope_calls, overlapped,
                   last_end, now, connection_ok, last_call>>

\* TelemetryTestResult.startTest
UtStartTest(t) ==
    /\ HostStartTest(t)
    /\ BaseStartTestOp(t)
    /\ UNCHANGED <<sinkVars, trimVars>>

\* The add* callbacks: all inherited.
UtAddOutcome(t) ==
    /\ \E kind \in OutcomeKinds : HostOutcome(t, kind)
    /\ UNCHANGED <<sinkVars, collVars, trimVars>>

\* A failing setUpClass: the inherited addError.
UtClassSetupError ==
    /\ HostClassSetupError
    /\ UNCHANGED <<sinkVars, collVars, trimVars>>

InList(t, list) == \E i \in 1..Len(list) : list[i] = t

\* stopTest's status, from membership in the result's lists.
UtStatus(t) ==
    IF InList(t, failures) \/ InList(t, errors) THEN "failed"
    ELSE IF InList(t, skipped) THEN "skipped"
    ELSE "passed"

\* The record stopTest builds.
UtTelemetry(t) ==
    [id |-> t,
     status |-> UtStatus(t),
     database |-> EmptyDatabaseTelemetry,
     network |-> CollectNetworkTelemetry(t)]

\* A faulty variant of stopTest: no record for a skipped test.
UtStopTest_SkipsSkipped(t) ==
    /\ HostStopTest(t)
    /\ IF UtStatus(t) = "skipped"
       THEN UNCHANGED sinkVars
       ELSE OutputTestTelemetry(UtTelemetry(t))
    /\ UNCHANGED <<collVars, trimVars>>

\* TelemetryTestResult.stopTest: build the record, write it, then the
\* inherited stopTest.
UtStopTest(t) ==
    /\ HostStopTest(t)
    /\ OutputTestTelemetry(UtTelemetry(t))
    /\ UNCHANGED <<collVars, trimVars>>

\* TelemetryTestRunner.run after test(result): the summary.
UtRunEnd ==
    /\ HostRunEnd
    /\ LET total_tests == testsRun
           passed_tests == total_tests - Len(failures) - Len(errors) - Len(skipped)
           failed_tests == Len(failures) + Len(errors)
           skipped_tests == Len(skipped)
       IN  OutputTestSummary(total_tests, passed_tests, failed_tests, skipped_tests)
    /\ UNCHANGED <<collVars, trimVars>>

-----------------------------------------------------------------------------
(* The pytest runner (trim_telemetry/pytest/runner.py)                     *)

\* The reports pytest delivers for one item, in order: setup, then call
\* when setup passed, then teardown.
ReportOutcomes == {"passed", "failed", "skipped"}

MayReport(when) ==
    \/ when = "setup" /\ h_outcomes = <<>>
    \/ when = "call" /\ h_outcomes = <<"setup:passed">>
    \/ when = "teardown" /\ h_outcomes # <<>>
           /\ h_outcomes # <<"setup:passed">>
           /\ h_outcomes[Len(h_outcomes)] \notin {"teardown:passed", "teardown:failed"}

\* PytestTelemetryPlugin.pytest_runtest_setup(item): start_test(item).
PySetup(t) ==
    /\ HostStartTest(t)
    /\ BaseStartTestOp(t)
    /\ UNCHANGED <<sinkVars, trimVars>>

\* The status pytest_runtest_logreport derives from report.outcome.
PyStatus(outcome) ==
    CASE outcome = "passed" -> "passed"
      [] outcome = "failed" -> "failed"
      [] outcome = "skipped" -> "skipped"
      [] OTHER -> "unknown"

\* PytestTelemetryPlugin.pytest_runtest_logreport(report): a record is
\* written for the report of the call phase only. The host moves on to the
\* next item after the teardown report.
PyLogReport(t, when, outcome) ==
    /\ run_phase = "running"
    /\ h_cur = t
    /\ MayReport(when)
    /\ when = "teardown" => outcome # "skipped"
    /\ IF when = "call"
       THEN OutputTestTelemetry([id |-> t, status |-> PyStatus(outcome),
                                 database |-> EmptyDatabaseTelemetry,
                                 network |-> CollectNetworkTelemetry(t)])
       ELSE UNCHANGED sinkVars
    /\ failures' = IF outcome = "failed" /\ ~InList(t, failures)
                   THEN Append(failures, t) ELSE failures
    /\ skipped' = IF outcome = "skipped" THEN Append(skipped, t) ELSE skipped
    /\ IF when = "teardown"
       THEN /\ h_cur' = "none"
            /\ h_outcomes' = <<>>
            /\ h_done' = h_done \cup {t}
       ELSE /\ h_outcomes' = Append(h_outcomes,
                                    IF when = "setup" THEN "setup:" \o outcome
                                    ELSE "call:" \o outcome)
            /\ UNCHANGED <<h_cur, h_done>>
    /\ UNCHANGED <<testsRun, errors, run_phase, collVars, trimVars>>

\* PytestTelemetryPlugin.pytest_sessionfinish(session, exitstatus): pass;
\* main then leaves through sys.exit(exit_code).
PySessionFinish ==
    /\ HostRunEnd
    /\ UNCHANGED <<sinkVars, collVars, trimVars>>

-----------------------------------------------------------------------------
(* TrimTelemetryRunner.run_tests (trim_telemetry/django_runner.py)         *)

NoSummary == [type |-> "none"]

\* print(f"TEST_SUMMARY:{json.dumps(summary_data)}", flush=True)
MarkedLine(marker, data) == <<marker>> \o JsonDumps(data) \o <<"\n">>

\* signal.signal(SIGTERM / SIGINT, signal_handler); start_test_run().
TrRegister ==
    /\ tr_pc = "start"
    /\ tr_pc' = "running"
    /\ UNCHANGED <<aggVars, itrVars, psVars, thVars, bcVars, summary_data, tr_exit, tr_signal_at, hostVars, sinkVars, collVars>>

\* run_suite runs one more test to its end: the host counts it and stopTest
\* prints its TEST_RESULT line.
TrRunTest ==
    /\ tr_pc = "running"
    /\ testsRun < MaxTrimTests
    /\ \E status \in {"passed", "failed", "error", "skipped"} :
           /\ failures' = IF status = "failed" THEN Append(failures, "t") ELSE failures
           /\ errors' = IF status = "error" THEN Append(errors, "t") ELSE errors
           /\ skipped' = IF status = "skipped" THEN Append(skipped, "t") ELSE skipped
           /\ stdout_lines' = Append(stdout_lines,
                  MarkedLine("TEST_RESULT:", [id |-> "t", status |-> status]))
    /\ testsRun' = testsRun + 1
    /\ UNCHANGED <<h_cur, h_outcomes, h_done, run_phase, trimVars, collVars,
                   file_exists, file_lines, telemetry_file, ctor_pc, writes,
                   last_write>>

\* The suite is through: summary_data is assigned (lines 476-488).
TrComputeSummary ==
    /\ tr_pc = "running"
    /\ summary_data' =
           [type |-> "test_run_summary",
            total_tests |-> testsRun,
            passed_tests |-> testsRun - Len(failures) - Len(errors),
            failed_tests |-> Len(failures) + Len(errors),
            skipped_tests |-> Len(skipped),
            exit_code |-> IF Len(failures) + Len(errors) = 0 THEN 0 ELSE 1]
    /\ tr_pc' = "summary_set"
    /\ UNCHANGED <<aggVars, itrVars, psVars, thVars, bcVars, tr_exit, tr_signal_at, hostVars, sinkVars, collVars>>

\* print(TEST_SUMMARY) of the try block (line 489).
TrPrintSummary ==
    /\ tr_pc = "summary_set"
    /\ stdout_lines' = Append(stdout_lines, MarkedLine("TEST_SUMMARY:", summary_data))
    /\ tr_pc' = "printed"
    /\ UNCHANGED <<aggVars, itrVars, psVars, thVars, bcVars, summary_data, tr_exit, tr_signal_at, hostVars, collVars,
                   file_exists, file_lines, telemetry_file, ctor_pc, writes,
                   last_write>>

\* return, through the finally block.
TrReturn ==
    /\ tr_pc = "printed"
    /\ tr_pc' = "exited"
    /\ tr_exit' = "return"
    /\ UNCHANGED <<aggVars, itrVars, psVars, thVars, bcVars, summary_data, tr_signal_at, hostVars, sinkVars, collVars>>

\* build_suite / run_suite raises an Exception: the except block assigns the
\* error summary (lines 496-505).
TrSuiteRaises ==
    /\ tr_pc = "running"
    /\ summary_data' =
           [type |-> "test_run_summary", total_tests |-> 0, passed_tests |-> 0,
            failed_tests |-> 1, skipped_tests |-> 0, exit_code |-> 1]
    /\ tr_pc' = "except_set"
    /\ UNCHANGED <<aggVars, itrVars, psVars, thVars, bcVars, tr_exit, tr_signal_at, hostVars, sinkVars, collVars>>

\* print(TEST_SUMMARY) of the except block (line 506).
TrExceptPrint ==
    /\ tr_pc = "except_set"
    /\ stdout_lines' = Append(stdout_lines, MarkedLine("TEST_SUMMARY:", summary_data))
    /\ tr_pc' = "except_printed"
    /\ UNCHANGED <<aggVars, itrVars, psVars, thVars, bcVars, summary_data, tr_exit, tr_signal_at, hostVars, collVars,
                   file_exists, file_lines, telemetry_file, ctor_pc, writes,
                   last_write>>

\* raise, through the finally block.
TrReraise ==
    /\ tr_pc = "except_printed"
    /\ tr_pc' = "exited"
    /\ tr_exit' = "exception"
    /\ UNCHANGED <<aggVars, itrVars, psVars, thVars, bcVars, summary_data, tr_signal_at, hostVars, sinkVars, collVars>>

\* SIGTERM / SIGINT while run_tests is on the stack: signal_handler prints
\* the summary if summary_data is set, then sys.exit(0); SystemExit is not an
\* Exception, so only the finally block runs.
TrSignal ==
    /\ tr_pc \in {"running", "summary_set", "printed", "except_set", "except_printed"}
    /\ stdout_lines' = IF summary_data # NoSummary
                       THEN Append(stdout_lines,
                                   MarkedLine("TEST_SUMMARY:", summary_data))
                       ELSE stdout_lines
    /\ tr_signal_at' = tr_pc
    /\ tr_pc' = "exited"
    /\ tr_exit' = "signal"
    /\ UNCHANGED <<aggVars, itrVars, psVars, thVars, bcVars, summary_data, hostVars, collVars, file_exists, file_lines,
                   telemetry_file, ctor_pc, writes, last_write>>

\* The TrimTelemetryRunner instances a process constructs.
Runners == {"r1", "r2", "r3"}

\* The values urllib.request.urlopen takes under the collector of
\* trim_telemetry/django_telemetry.py: the real function, or the
\* tracked_urlopen closure made by start_network_monitoring(test_id).
RealUrlopen == [fn |-> "real", test_id |-> "none"]

TrackedUrlopenOf(t) == [fn |-> "tracked", test_id |-> t]

\* test_id not in self.test_network_calls
PsNoEntry == [st |-> Absent, calls |-> <<>>, original_urlopen |-> RealUrlopen]

\* No tracked_urlopen call has been made on the calling thread.
NoTrackedCall ==
    [pc |-> "idle", url |-> "none", real |-> "none", size |-> 0,
     remaining |-> {}, logged |-> {}, stable |-> {}, error |-> "none"]

\* TrimTelemetryRunner.__init__ (test_durations = [], a fresh collector) and
\* the start of run_tests.
TrimInit ==
    /\ tr_pc = "start"
    /\ summary_data = NoSummary
    /\ tr_exit = "none"
    /\ tr_signal_at = "none"
    /\ test_durations = <<>>
    /\ network_call_attempts = <<>>
    /\ socket_socket = "real"
    /\ original_socket = "unset"
    /\ last_socket = [via |-> "none"]
    /\ agg_last = [op |-> "none"]
    /\ test_query_counts = [t \in Tests |-> NoWatermark]
    /\ current_test_start = NoTiming
    /\ result_status = [t \in Tests |-> Absent]
    /\ last_stop = [test |-> "none"]
    /\ started_nq = 0
    /\ ps_urlopen = RealUrlopen
    /\ ps_network_calls = [t \in Tests |-> PsNoEntry]
    /\ ps_last_call = [via |-> "none"]
    /\ tracked_call = NoTrackedCall
    /\ test_results = <<>>
    /\ last_end_test = [seq |-> 0]
    /\ runner_pc = [r \in Runners |-> "new"]
    /\ self_original_socket = [r \in Runners |-> "unset"]
    /\ runner_exit = [r \in Runners |-> "none"]

-----------------------------------------------------------------------------
(* DjangoTelemetryCollector of trim_telemetry/django_telemetry.py: a       *)
(* tracked_urlopen per scope, on top of BaseTelemetryCollector             *)

\* A call of the function value fn while the wrappers of `visited` are on
\* the stack. The wrapper of an active test calls the original_urlopen of
\* its entry and logs the url when that returns; the wrapper of a test
\* without entry calls whatever urllib.request.urlopen is now. Nothing
\* changes before the real function is reached, so a wrapper entered a
\* second time is entered without end (RecursionError).
RECURSIVE PsCall(_, _)
PsCall(fn, visited) ==
    IF fn = RealUrlopen THEN [terminated |-> TRUE, forwarded |-> 1, loggers |-> {}]
    ELSE IF fn.test_id \in visited
    THEN [terminated |-> FALSE, forwarded |-> 0, loggers |-> {}]
    ELSE LET t == fn.test_id
             active == ps_network_calls[t].st # Absent
             inner == PsCall(IF active THEN ps_network_calls[t].original_urlopen
                             ELSE ps_urlopen,
                             visited \cup {t})
         IN  [terminated |-> inner.terminated,
              forwarded |-> inner.forwarded,
              loggers |-> IF active THEN inner.loggers \cup {t} ELSE inner.loggers]

\* DjangoTelemetryCollector.start_test(test): the base class's start_test,
\* reset_queries(), the watermark, then start_network_monitoring, which
\* keeps the current urlopen in the entry and installs a new wrapper.
PsStartTest(t) ==
    /\ nstarts < MaxStarts
    /\ nstarts' = nstarts + 1
    /\ test_status' = [test_status EXCEPT ![t] = "running"]
    /\ test_timings' = [test_timings EXCEPT ![t] = [has |-> TRUE, at |-> now]]
    /\ queries' = <<>>
    /\ test_queries' = [test_queries EXCEPT ![t] = [has |-> TRUE, count |-> 0]]
    /\ ps_network_calls' =
           [ps_network_calls EXCEPT
               ![t] = [st |-> "dict", calls |-> <<>>, original_urlopen |-> ps_urlopen]]
    /\ ps_urlopen' = TrackedUrlopenOf(t)
    /\ last_op' = "start_test"
    /\ UNCHANGED <<ps_last_call, test_network_calls, urlopen,
                   trim_telemetry_patched, original_urlopen, nq, ncalls,
                   scope_queries, scope_calls, overlapped, last_end, now,
                   connection_ok, last_call, sinkVars, hostVars, runVars,
                   aggVars, itrVars, thVars, bcVars>>

\* BaseTelemetryCollector.end_test(test, status), which this collector does
\* not override: the record is built and returned and _cleanup_test_data
\* deletes the test's entries; stop_network_monitoring is not called.
PsEndTest(t) ==
    /\ test_status' = [test_status EXCEPT ![t] = Absent]
    /\ test_timings' = [test_timings EXCEPT ![t] = NoTiming]
    /\ test_queries' = [test_queries EXCEPT ![t] = NoWatermark]
    /\ ps_network_calls' = [ps_network_calls EXCEPT ![t] = PsNoEntry]
    /\ last_op' = "end_test"
    /\ UNCHANGED <<ps_urlopen, ps_last_call, test_network_calls, urlopen,
                   trim_telemetry_patched, original_urlopen, queries, nq,
                   ncalls, nstarts, scope_queries, scope_calls, overlapped,
                   last_end, now, connection_ok, last_call, sinkVars, hostVars,
                   runVars, aggVars, itrVars, thVars, bcVars>>

\* Code under test calls urllib.request.urlopen(url).
PsUrlopen ==
    /\ ncalls < MaxCalls
    /\ ncalls' = ncalls + 1
    /\ \E url \in Urls :
           LET call == PsCall(ps_urlopen, {})
           IN  /\ ps_network_calls' =
                      [t \in Tests |->
                          IF call.terminated /\ t \in call.loggers
                          THEN [ps_network_calls[t] EXCEPT !.calls = Append(@, url)]
                          ELSE ps_network_calls[t]]
               /\ ps_last_call' = [via |-> ps_urlopen.fn, url |-> url,
                                   terminated |-> call.terminated,
                                   forwarded |-> call.forwarded,
                                   logged |-> call.loggers,
                                   ended |-> {t \in Tests :
                                       ps_network_calls[t].st = Absent}]
    /\ last_op' = "urlopen"
    /\ UNCHANGED <<ps_urlopen, test_status, test_timings, test_queries,
                   test_network_calls, urlopen, trim_telemetry_patched,
                   original_urlopen, queries, nq, nstarts, scope_queries,
                   scope_calls, overlapped, last_end, now, connection_ok,
                   last_call, sinkVars, hostVars, runVars, aggVars, itrVars, thVars, bcVars>>

-----------------------------------------------------------------------------
(* tracked_urlopen of trim_telemetry/django/telemetry.py step by step, on  *)
(* one thread, while another thread starts and ends tests                  *)

\* The keys of self.test_network_calls.
NetworkCallKeys == {t \in TestIds : test_network_calls[t].st # Absent}

\* tracked_urlopen is entered and calls the original.
TuEnter ==
    /\ tracked_call.pc \in {"idle", "done"}
    /\ urlopen = "tracked"
    /\ ncalls < MaxCalls
    /\ ncalls' = ncalls + 1
    /\ \E url \in Urls, real \in RealOutcomes :
           tracked_call' = [NoTrackedCall EXCEPT
                               !.pc = "in_original", !.url = url, !.real = real,
                               !.stable = {t \in TestIds :
                                              test_network_calls[t].st = "dict"}]
    /\ last_op' = "urlopen_entered"
    /\ UNCHANGED <<test_status, test_timings, test_queries, test_network_calls,
                   urlopen, trim_telemetry_patched, original_urlopen, queries,
                   nq, nstarts, scope_queries, scope_calls, overlapped,
                   last_end, now, connection_ok, last_call>>

\* The original returns or raises; after a return the loop over
\* self.test_network_calls.items() begins: the iterator notes the size of
\* the dict.
TuOriginalEnds ==
    /\ tracked_call.pc = "in_original"
    /\ tracked_call' =
           IF tracked_call.real = "raised"
           THEN [tracked_call EXCEPT !.pc = "done"]
           ELSE [tracked_call EXCEPT !.pc = "iterating",
                                    !.size = Cardinality(NetworkCallKeys),
                                    !.remaining = NetworkCallKeys]
    /\ last_op' = "urlopen_forwarded"
    /\ UNCHANGED <<test_status, test_timings, test_queries, test_network_calls,
                   urlopen, trim_telemetry_patched, original_urlopen, queries,
                   nq, ncalls, nstarts, scope_queries, scope_calls, overlapped,
                   last_end, now, connection_ok, last_call>>

\* One step of the loop: the iterator raises RuntimeError when the dict has
\* changed size since the loop began; at the end of the keys the result is
\* returned; otherwise the url is appended to the next entry when it is a
\* dict, an entry that is None is passed over, and an entry that is still
\* the list of the base class's start_test raises TypeError.
TuNext ==
    /\ tracked_call.pc = "iterating"
    /\ IF Cardinality(NetworkCallKeys) # tracked_call.size
       THEN /\ tracked_call' = [tracked_call EXCEPT !.pc = "done",
                                                    !.error = "RuntimeError"]
            /\ UNCHANGED test_network_calls
       ELSE IF tracked_call.remaining \cap NetworkCallKeys = {}
       THEN /\ tracked_call' = [tracked_call EXCEPT !.pc = "done"]
            /\ UNCHANGED test_network_calls
       ELSE \E t \in tracked_call.remaining \cap NetworkCallKeys :
               CASE test_network_calls[t].st = "dict" ->
                        /\ test_network_calls' =
                               [test_network_calls EXCEPT
                                   ![t].calls = Append(@, tracked_call.url)]
                        /\ tracked_call' =
                               [tracked_call EXCEPT
                                   !.remaining = @ \ {t}, !.logged = @ \cup {t}]
                 [] test_network_calls[t].st = "list" ->
                        /\ tracked_call' = [tracked_call EXCEPT
                                                !.pc = "done", !.error = "TypeError"]
                        /\ UNCHANGED test_network_calls
                 [] OTHER ->
                        /\ tracked_call' = [tracked_call EXCEPT !.remaining = @ \ {t}]
                        /\ UNCHANGED test_network_calls
    /\ last_op' = "urlopen_loop"
    /\ UNCHANGED <<test_status, test_timings, test_queries, urlopen,
                   trim_telemetry_patched, original_urlopen, queries, nq,
                   ncalls, nstarts, scope_queries, scope_calls, overlapped,
                   last_end, now, connection_ok, last_call>>

\* Another thread runs start_test(t) or end_test(t) while the call is in
\* flight or between calls; a scope it touches is not active throughout.
OtherThreadStartTest(t) ==
    /\ StartTest(t)
    /\ tracked_call' = [tracked_call EXCEPT !.stable = @ \ {t}]

OtherThreadEndTest(t) ==
    /\ EndTest(t)
    /\ tracked_call' = [tracked_call EXCEPT !.stable = @ \ {t}]

-----------------------------------------------------------------------------
(* InstrumentedTestResult of TrimTelemetryRunner.run_suite                 *)

\* float(q["time"]) raises: the text is not a number (ValueError) or the
\* entry has no "time" key (KeyError).
FloatTimeRaises(q) == q.time = Missing \/ Float(q.time).raises

\* sum(float(q["time"]) for q in test_queries), in milliseconds, for entries
\* whose time is a number.
RECURSIVE QueryTime(_)
QueryTime(tqs) ==
    IF tqs = <<>> THEN 0 ELSE Float(Head(tqs).time).ms + QueryTime(Tail(tqs))

\* TrimTelemetryRunner._analyze_database_queries(test_queries,
\* total_query_time): the count and the total of the answer.
AnalyzeDatabaseQueries(tqs, total_query_time) ==
    IF tqs = <<>> THEN [count |-> 0, total_duration |-> 0]
    ELSE [count |-> Len(tqs), total_duration |-> total_query_time]

\* InstrumentedTestResult.startTest(test): the host's startTest, the
\* collector's start_test, and the query count kept for the test.
ItrStartTest(t) ==
    /\ run_phase = "running"
    /\ h_cur = "none"
    /\ t \notin h_done
    /\ testsRun' = testsRun + 1
    /\ h_cur' = t
    /\ h_outcomes' = <<>>
    /\ current_test_start' = [has |-> TRUE, at |-> now]
    /\ test_query_counts' =
           [test_query_counts EXCEPT ![t] = [has |-> TRUE, count |-> Len(queries)]]
    /\ started_nq' = nq
    /\ UNCHANGED <<failures, errors, skipped, h_done, run_phase, result_status,
                   last_stop, runVars, aggVars, psVars, thVars, bcVars, sinkVars, collVars>>

\* InstrumentedTestResult.addSuccess / addError / addFailure / addSkip.
ItrAddOutcome(t) ==
    /\ run_phase = "running"
    /\ h_cur = t
    /\ h_outcomes = <<>>
    /\ \E kind \in {"success", "error", "failure", "skip"} :
           /\ HostRecord(t, kind)
           /\ h_outcomes' = <<kind>>
           /\ result_status' =
                  [result_status EXCEPT
                      ![t] = CASE kind = "success" -> "passed"
                               [] kind = "error" -> "error"
                               [] kind = "failure" -> "failed"
                               [] kind = "skip" -> "skipped"]
    /\ UNCHANGED <<testsRun, h_cur, h_done, run_phase, test_query_counts,
                   current_test_start, last_stop, started_nq, runVars, aggVars,
                   psVars, thVars, bcVars,
                   sinkVars, collVars>>

\* Whether stopTest leaves by an exception before it builds the record:
\* query_time = sum(float(q["time"]) for q in test_queries) is not guarded.
StopTestRaises(tqs) == \E i \in 1..Len(tqs) : FloatTimeRaises(tqs[i])

\* InstrumentedTestResult.stopTest(test): the slice of the log, the query
\* time, then, with a start time, the duration kept, the TEST_RESULT line
\* printed and the attempts cleared, and the host's stopTest last. An
\* exception of the query time leaves stopTest at once and ends run_suite.
ItrStopTest(t) ==
    /\ run_phase = "running"
    /\ h_cur = t
    /\ h_outcomes # <<>>
    /\ LET initial_query_count ==
               IF test_query_counts[t].has THEN test_query_counts[t].count ELSE 0
           tqs == SliceFrom(queries, initial_query_count)
           status == IF result_status[t] = Absent THEN "passed"
                     ELSE result_status[t]
           duration == now - current_test_start.at
       IN  IF StopTestRaises(tqs)
           THEN /\ last_stop' = [test |-> t, slice |-> tqs, before |-> started_nq,
                                 raised |-> TRUE,
                                 host_stopped |-> FALSE, printed |-> FALSE]
                /\ run_phase' = "aborted"
                /\ UNCHANGED <<h_cur, h_outcomes, h_done, stdout_lines,
                               test_durations, network_call_attempts>>
           ELSE /\ last_stop' = [test |-> t, slice |-> tqs, before |-> started_nq,
                                 raised |-> FALSE,
                                 host_stopped |-> TRUE,
                                 printed |-> current_test_start.has]
                /\ IF current_test_start.has
                   THEN /\ test_durations' = Append(test_durations, 10 * duration)
                        /\ stdout_lines' = Append(stdout_lines,
                               MarkedLine("TEST_RESULT:",
                                   [id |-> t, status |-> status,
                                    duration |-> duration,
                                    database_queries |->
                                        AnalyzeDatabaseQueries(tqs, QueryTime(tqs)),
                                    http_calls |->
                                        [count |-> Len(network_call_attempts),
                                         external_calls |-> network_call_attempts]]))
                        /\ network_call_attempts' = <<>>
                   ELSE UNCHANGED <<test_durations, stdout_lines,
                                    network_call_attempts>>
                /\ h_cur' = "none"
                /\ h_outcomes' = <<>>
                /\ h_done' = h_done \cup {t}
                /\ UNCHANGED run_phase
    /\ UNCHANGED <<testsRun, failures, errors, skipped, test_query_counts,
                   current_test_start, result_status, started_nq, runVars, psVars,
                   thVars, bcVars, agg_last,
                   socket_socket, original_socket, last_socket, collVars,
                   file_exists, file_lines, telemetry_file, ctor_pc, writes,
                   last_write>>

-----------------------------------------------------------------------------
(* The aggregation functions of TrimTelemetryRunner                        *)
(* (trim_telemetry/django_runner.py) and the run summary of the blocking   *)
(* collector (base_collector.py)                                           *)

\* The durations a test can take, in tenths of a millisecond (the code holds
\* floats: (end_time - start_time) * 1000).
DurationInputs == {100, 200, 300, 420, 425}

\* sorted(durations)
RECURSIVE Sorted(_)
Sorted(durations) ==
    IF durations = <<>> THEN <<>>
    ELSE LET least == CHOOSE i \in 1..Len(durations) :
                          \A j \in 1..Len(durations) : durations[i] <= durations[j]
             rest == [k \in 1..(Len(durations) - 1) |->
                         IF k < least THEN durations[k] ELSE durations[k + 1]]
         IN  <<durations[least]>> \o Sorted(rest)

\* round(num / den) for num >= 0, den > 0: to the nearest integer, a tie to
\* the even one.
Round(num, den) ==
    LET q == num \div den
        r == num % den
    IN  IF 2 * r < den THEN q
        ELSE IF 2 * r > den THEN q + 1
        ELSE IF q % 2 = 0 THEN q ELSE q + 1

\* A faulty variant of _calculate_percentile: the element at the floor of
\* the index, without interpolation.
CalculatePercentile_NoInterpolation(durations, percentile) ==
    IF durations = <<>> THEN 0
    ELSE Round(Sorted(durations)[(percentile * (Len(durations) - 1)) \div 100 + 1], 10)

\* TrimTelemetryRunner._calculate_percentile(percentile) over a history in
\* tenths of a millisecond; the result is in milliseconds. index is kept as
\* index * 100 and weight as weight * 100.
CalculatePercentile(durations, percentile) ==
    IF durations = <<>> THEN 0
    ELSE LET sorted_durations == Sorted(durations)
             n == Len(sorted_durations)
             index == percentile * (n - 1)
             lower_index == index \div 100
             weight == index - 100 * lower_index
         IN  IF n = 1 THEN Round(sorted_durations[1], 10)
             ELSE IF index % 100 = 0
             THEN Round(sorted_durations[lower_index + 1], 10)
             ELSE LET lower_value == sorted_durations[lower_index + 1]
                      upper_value == sorted_durations[lower_index + 2]
                  IN  Round(100 * lower_value
                                + weight * (upper_value - lower_value), 1000)

\* stopTest appends the finished test's duration to runner.test_durations.
RecordDuration ==
    /\ Len(test_durations) < MaxDurations
    /\ \E d \in DurationInputs : test_durations' = Append(test_durations, d)
    /\ UNCHANGED <<blockVars, agg_last>>

\* A call of _calculate_percentile(p): stopTest asks for 50, 95 and 99.
PercentileCall ==
    /\ \E p \in {50, 95, 99} :
           agg_last' = [op |-> "percentile", percentile |-> p,
                        durations |-> test_durations,
                        result |-> CalculatePercentile(test_durations, p)]
    /\ UNCHANGED <<test_durations, blockVars>>


\* TrimTelemetryRunner._generate_performance_flags(duration, query_count,
\* test_queries), duration in milliseconds; tqs is test_queries, attempts is
\* len(self.telemetry_collector.network_call_attempts).
GeneratePerformanceFlags(duration, query_count, tqs, attempts) ==
    LET slow_query_count ==
            Cardinality({i \in 1..Len(tqs) :
                            Float(tqs[i].time).ms > 100})
        select_queries ==
            {i \in 1..Len(tqs) : Signature(tqs[i].sql) = "SELECT 1"}
    IN  (IF duration > 5000 THEN <<"very_slow">>
         ELSE IF duration > 1000 THEN <<"slow">> ELSE <<>>)
        \o (IF query_count > 100 THEN <<"high_db_queries">>
            ELSE IF query_count > 50 THEN <<"moderate_db_queries">> ELSE <<>>)
        \o (IF attempts > 0 THEN <<"network_calls_blocked">> ELSE <<>>)
        \o (IF slow_query_count > 0 THEN <<"has_slow_queries">> ELSE <<>>)
        \o (IF Cardinality(select_queries) > 10
            THEN <<"potential_n_plus_1_queries">> ELSE <<>>)

\* The places in the code under test that create sockets, as the caller
\* frame shows them, and the threads they run on.
CallSites ==
    { [file |-> "app/views.py", line |-> 10, function |-> "fetch"],
      [file |-> "app/tasks.py", line |-> 20, function |-> "sync"] }

Threads == {"MainThread", "Thread-1"}

\* BaseTelemetryCollector.record_network_call(filename, line_number,
\* function_name) on the list `attempts`, called on `thread` at time `ts`.
RecordNetworkCall(attempts, filename, line_number, function_name, thread, ts) ==
    Append(attempts, [timestamp |-> ts, file |-> filename, line |-> line_number,
                      function |-> function_name, thread |-> thread])

\* A faulty variant of blocked_socket: it raises without recording.
BlockedSocket_Unrecorded(attempts, site, thread, ts) ==
    [attempts |-> attempts, outcome |-> "raised"]

\* blocked_socket(*args, **kwargs) called from `site`: the caller's frame is
\* recorded, then RuntimeError is raised.
BlockedSocket(attempts, site, thread, ts) ==
    [attempts |-> RecordNetworkCall(attempts, site.file, site.line,
                                    site.function, thread, ts),
     outcome |-> "raised"]

\* BaseTelemetryCollector.block_network_calls(): socket.socket is replaced
\* and the caller keeps what it was.
BlockNetworkCalls ==
    /\ original_socket = "unset"
    /\ original_socket' = socket_socket
    /\ socket_socket' = "blocked"
    /\ UNCHANGED <<network_call_attempts, last_socket, test_durations, agg_last>>

\* BaseTelemetryCollector.restore_network_calls(original_socket).
RestoreNetworkCalls ==
    /\ original_socket # "unset"
    /\ socket_socket' = original_socket
    /\ original_socket' = "unset"
    /\ UNCHANGED <<network_call_attempts, last_socket, test_durations, agg_last>>

\* Code under test calls socket.socket(...): the real class, or
\* blocked_socket.
SocketCallAt(site, thread) ==
    /\ Len(network_call_attempts) < MaxAttempts
    /\    LET call == IF socket_socket = "blocked"
                       THEN BlockedSocket(network_call_attempts, site, thread, now)
                       ELSE [attempts |-> network_call_attempts,
                             outcome |-> "connected"]
           IN  /\ network_call_attempts' = call.attempts
               /\ last_socket' = [via |-> socket_socket, site |-> site,
                                  thread |-> thread, at |-> now,
                                  outcome |-> call.outcome,
                                  before |-> network_call_attempts]
    /\ UNCHANGED <<socket_socket, original_socket, test_durations, agg_last>>

SocketCall == \E site \in CallSites, thread \in Threads : SocketCallAt(site, thread)

\* stopTest calls _generate_performance_flags(duration, queries,
\* test_queries).
FlagsCall ==
    /\ \E duration \in {1000, 1001, 2000, 2001, 5000, 5001},
          query_count \in {50, 51, 100, 101},
          tqs \in {<<>>, <<[sql |-> "SELECT 1", time |-> "0.2"]>>} :
           agg_last' = [op |-> "flags", duration |-> duration,
                        query_count |-> query_count,
                        attempts |-> Len(network_call_attempts),
                        flags |-> GeneratePerformanceFlags(duration, query_count,
                                      tqs, Len(network_call_attempts))]
    /\ UNCHANGED <<test_durations, blockVars>>

\* The test objects handed to the blocking collector: an id, and whether
\* the object's class has an attribute get that can be called with two
\* arguments (a unittest.TestCase class has none).
TestObjects == {[id |-> t, class_get |-> g] : t \in Tests, g \in {"absent", "callable"}}

\* getattr(test, "__class__", {}).get("__name__", ""): every object has a
\* __class__, so the default {} is never used and .get is looked up on the
\* class; AttributeError when the class has no such attribute.
ClassGetRaises(test) == test.class_get = "absent"

\* The dict end_test builds, with the fields that vary.
BcTestTelemetry(test, status, duration, attempts) ==
    [id |-> test.id,
     status |-> status,
     duration |-> duration,
     http_calls |-> [count |-> Len(attempts), external_calls |-> attempts],
     flags |-> (IF duration > 5000 THEN <<"very_slow">>
                ELSE IF duration > 2000 THEN <<"slow">> ELSE <<>>)
               \o (IF Len(attempts) > 0 THEN <<"network_calls_blocked">> ELSE <<>>)]

\* BaseTelemetryCollector.start_test_run()
BcStartTestRun ==
    /\ test_results' = <<>>
    /\ network_call_attempts' = <<>>
    /\ UNCHANGED <<last_end_test, runner_pc, self_original_socket, runner_exit,
                   socket_socket, original_socket, last_socket,
                   test_durations, agg_last, runVars, itrVars, psVars, thVars,
                   sinkVars, collVars, hostVars>>

\* BaseTelemetryCollector.start_test(test)
BcStartTest ==
    /\ current_test_start' = [has |-> TRUE, at |-> now]
    /\ UNCHANGED <<test_query_counts, result_status, last_stop, started_nq, runVars,
                   aggVars,
                   psVars, thVars, bcVars, sinkVars, collVars, hostVars>>

\* BaseTelemetryCollector.end_test(test, status): nothing without a start
\* time; else the dict is built (which raises when the class lookup does),
\* appended to test_results, printed as a TEST_RESULT line, and the attempts
\* are cleared.
BcEndTest(test, status) ==
    /\ last_end_test.seq < MaxEndTests
    /\ LET call == [seq |-> last_end_test.seq + 1, test |-> test.id,
                    status |-> status]
           test_telemetry == BcTestTelemetry(test, status,
                                 now - current_test_start.at,
                                 network_call_attempts)
       IN  IF ~current_test_start.has
           THEN /\ last_end_test' = call @@ [outcome |-> "returned_early"]
                /\ UNCHANGED <<test_results, stdout_lines, network_call_attempts>>
           ELSE IF ClassGetRaises(test)
           THEN /\ last_end_test' = call @@ [outcome |-> "raised"]
                /\ UNCHANGED <<test_results, stdout_lines, network_call_attempts>>
           ELSE /\ last_end_test' = call @@ [outcome |-> "recorded"]
                /\ test_results' = Append(test_results, test_telemetry)
                /\ stdout_lines' = Append(stdout_lines,
                                         MarkedLine("TEST_RESULT:", test_telemetry))
                /\ network_call_attempts' = <<>>
    /\ UNCHANGED <<socket_socket, original_socket, last_socket, test_durations,
                   agg_last, runVars, itrVars, psVars, thVars, hostVars, collVars,
                   file_exists, file_lines, telemetry_file, ctor_pc, writes,
                   last_write, runner_pc, self_original_socket, runner_exit>>

\* TrimTelemetryRunner.__init__: a collector of its own, and
\* self.original_socket = block_network_calls(), which saves whatever
\* socket.socket is now and installs a blocked_socket.
TtrInit(r) ==
    /\ runner_pc[r] = "new"
    /\ \A q \in Runners : runner_pc[q] \notin {"registered", "in_try"}
    /\ self_original_socket' = [self_original_socket EXCEPT ![r] = socket_socket]
    /\ socket_socket' = "blocked"
    /\ runner_pc' = [runner_pc EXCEPT ![r] = "constructed"]
    /\ UNCHANGED <<runner_exit, test_results, last_end_test, network_call_attempts,
                   original_socket, last_socket, test_durations, agg_last>>

\* run_tests up to the try: the signal handlers are registered. The process
\* has one thread of control, so one run_tests is on the stack at a time.
TtrRegister(r) ==
    /\ runner_pc[r] = "constructed"
    /\ \A q \in Runners : runner_pc[q] \notin {"registered", "in_try"}
    /\ runner_pc' = [runner_pc EXCEPT ![r] = "registered"]
    /\ UNCHANGED <<runner_exit, self_original_socket, test_results, last_end_test,
                   aggVars>>

\* start_test_run() of the runner's collector, and the try block is entered.
\* No socket is asked for in this part of the model, so the lists of either
\* collector are empty and stay so.
TtrEnterTry(r) ==
    /\ runner_pc[r] = "registered"
    /\ test_results' = <<>>
    /\ network_call_attempts' = <<>>
    /\ runner_pc' = [runner_pc EXCEPT ![r] = "in_try"]
    /\ UNCHANGED <<runner_exit, self_original_socket, last_end_test, socket_socket,
                   original_socket, last_socket, test_durations, agg_last>>

\* How the try block of run_tests is left.
RunTestsExits == {"return", "exception", "signal"}

\* The try block is left by return, by the re-raised exception or by the
\* SystemExit of the signal handler: the finally block calls
\* restore_network_calls(self.original_socket).
TtrFinally(r, how) ==
    /\ runner_pc[r] = "in_try"
    /\ socket_socket' = self_original_socket[r]
    /\ runner_pc' = [runner_pc EXCEPT ![r] = "done"]
    /\ runner_exit' = [runner_exit EXCEPT ![r] = how]
    /\ UNCHANGED <<self_original_socket, test_results, last_end_test,
                   network_call_attempts, original_socket, last_socket,
                   test_durations, agg_last>>

\* A signal between signal.signal(...) and the try: signal_handler raises
\* SystemExit outside the try, so the finally block does not run.
TtrSignalBeforeTry(r) ==
    /\ runner_pc[r] = "registered"
    /\ runner_pc' = [runner_pc EXCEPT ![r] = "done"]
    /\ runner_exit' = [runner_exit EXCEPT ![r] = "signal_before_try"]
    /\ UNCHANGED <<self_original_socket, test_results, last_end_test, aggVars>>

\* The counts a caller passes to a summary function.
CountInputs == {0, 1}

\* BaseTelemetryCollector.end_test_run of the blocking collector: builds the
\* summary and prints its TEST_SUMMARY line; a run ends once.
EndTestRun ==
    /\ run_phase = "running"
    /\ \E total_tests \in CountInputs, passed_tests \in CountInputs,
          failed_tests \in CountInputs \cup {2}, skipped_tests \in CountInputs :
           LET summary == [total_tests |-> total_tests,
                           passed_tests |-> passed_tests,
                           failed_tests |-> failed_tests,
                           skipped_tests |-> skipped_tests,
                           exit_code |-> IF failed_tests = 0 THEN 0 ELSE 1]
           IN  /\ stdout_lines' = Append(stdout_lines,
                                       MarkedLine("TEST_SUMMARY:", summary))
               /\ agg_last' = [op |-> "end_test_run",
                               failed_tests |-> failed_tests,
                               summary |-> summary]
    /\ run_phase' = "done"
    /\ UNCHANGED <<file_exists, file_lines, telemetry_file, ctor_pc, writes,
                   last_write, collVars, testsRun, failures, errors, skipped,
                   h_cur, h_outcomes, h_done, runVars, itrVars, psVars, thVars, bcVars, test_durations,
                   blockVars>>

\* BaseTelemetryCollector.output_test_summary of the file collector, called
\* with any counts at the end of a run.
OutputSummaryCall ==
    /\ run_phase = "running"
    /\ ctor_pc[Runner] = "ready"
    /\ \E total_tests \in CountInputs, passed_tests \in CountInputs,
          failed_tests \in CountInputs \cup {2}, skipped_tests \in CountInputs :
           /\ OutputTestSummary(total_tests, passed_tests, failed_tests,
                                skipped_tests)
           /\ agg_last' = [op |-> "output_test_summary",
                           failed_tests |-> failed_tests]
    /\ run_phase' = "done"
    /\ UNCHANGED <<collVars, testsRun, failures, errors, skipped, h_cur,
                   h_outcomes, h_done, runVars, itrVars, psVars, thVars, bcVars, test_durations,
                   blockVars>>

-----------------------------------------------------------------------------
(* The specifications *)

\* The state after construction: no collector has run _ensure_telemetry_file
\* yet, the maps are empty, nothing is patched, no test has run.
Init == SinkInit /\ CollectorInit /\ HostInit /\ TrimInit

\* The collector driven through start_test / end_test while the host
\* executes queries.
CollectorNext ==
    \/ \E t \in Tests : StartTest(t) /\ UNCHANGED <<sinkVars, hostVars, trimVars>>
    \/ \E t \in Tests : EndTest(t) /\ UNCHANGED <<sinkVars, hostVars, trimVars>>
    \/ ExecuteQuery(QueryInputs) /\ UNCHANGED <<sinkVars, hostVars, trimVars>>
    \/ Tick /\ UNCHANGED <<sinkVars, hostVars, trimVars>>

SpecCollector == Init /\ [][CollectorNext]_vars

\* The collector driven through start_test / end_test while the code under
\* test calls urlopen.
NetworkNext ==
    \/ \E t \in Tests : StartTest(t) /\ UNCHANGED <<sinkVars, hostVars, trimVars>>
    \/ \E t \in Tests : EndTest(t) /\ UNCHANGED <<sinkVars, hostVars, trimVars>>
    \/ Urlopen /\ UNCHANGED <<sinkVars, hostVars, trimVars>>

SpecNetwork == Init /\ [][NetworkNext]_vars

\* start_network_monitoring and stop_network_monitoring called in any order
\* while the code under test calls urlopen.
MonitoringNext ==
    \/ \E t \in Tests : StartMonitoring(t) /\ UNCHANGED <<sinkVars, hostVars, trimVars>>
    \/ \E t \in Tests : StopMonitoring(t) /\ UNCHANGED <<sinkVars, hostVars, trimVars>>
    \/ Urlopen /\ UNCHANGED <<sinkVars, hostVars, trimVars>>

SpecMonitoring == Init /\ [][MonitoringNext]_vars

\* One thread inside tracked_urlopen, another starting and ending tests.
ThreadsNext ==
    \/ \E t \in Tests : OtherThreadStartTest(t)
          /\ UNCHANGED <<sinkVars, hostVars, runVars, aggVars, itrVars, psVars, bcVars>>
    \/ \E t \in Tests : OtherThreadEndTest(t)
          /\ UNCHANGED <<sinkVars, hostVars, runVars, aggVars, itrVars, psVars, bcVars>>
    \/ TuEnter /\ UNCHANGED <<sinkVars, hostVars, runVars, aggVars, itrVars, psVars, bcVars>>
    \/ TuOriginalEnds
          /\ UNCHANGED <<sinkVars, hostVars, runVars, aggVars, itrVars, psVars, bcVars>>
    \/ TuNext /\ UNCHANGED <<sinkVars, hostVars, runVars, aggVars, itrVars, psVars, bcVars>>

SpecThreads == Init /\ [][ThreadsNext]_vars

\* The per-scope patching collector driven through start_test / end_test
\* while the code under test calls urlopen.
PerScopeNext ==
    \/ \E t \in Tests : PsStartTest(t)
    \/ \E t \in Tests : PsEndTest(t)
    \/ PsUrlopen

SpecPerScope == Init /\ [][PerScopeNext]_vars

\* The collector driven through start_test / end_test while entries that
\* cannot be reduced get into the log and the connection can go away.
BadLogNext ==
    \/ \E t \in Tests : StartTest(t) /\ UNCHANGED <<sinkVars, hostVars, trimVars>>
    \/ \E t \in Tests : EndTest(t) /\ UNCHANGED <<sinkVars, hostVars, trimVars>>
    \/ ExecuteQuery(BadEntries \cup {[sql |-> "SELECT 1", time |-> "0.002"]})
           /\ UNCHANGED <<sinkVars, hostVars, trimVars>>
    \/ LoseConnection /\ UNCHANGED <<sinkVars, hostVars, trimVars>>

SpecBadLog == Init /\ [][BadLogNext]_vars

\* The Django runner driven by the host.
DjangoRunnerNext ==
    \/ RunnerConstruct
    \/ \E t \in Tests : DjStartTest(t)
    \/ \E t \in Tests, kind \in OutcomeKinds : DjAddOutcome(t, kind)
    \/ \E t \in Tests, kind \in OutcomeKinds : DjAddInherited(t, kind)
    \/ \E t \in Tests : DjStopTest(t)
    \/ DjClassSetupError
    \/ DjRunTestsEnd

SpecDjangoRunner == Init /\ [][DjangoRunnerNext]_vars

\* The unittest runner driven by the host.
UnittestRunnerNext ==
    \/ RunnerConstruct
    \/ \E t \in Tests : UtStartTest(t)
    \/ \E t \in Tests : UtAddOutcome(t)
    \/ \E t \in Tests : UtStopTest(t)
    \/ UtClassSetupError
    \/ UtRunEnd

SpecUnittestRunner == Init /\ [][UnittestRunnerNext]_vars

\* pytest.main drives the plugin through a session.
PytestRunnerNext ==
    \/ RunnerConstruct
    \/ \E t \in Tests : PySetup(t)
    \/ \E t \in Tests, when \in {"setup", "call", "teardown"},
          outcome \in ReportOutcomes : PyLogReport(t, when, outcome)
    \/ PySessionFinish

SpecPytestRunner == Init /\ [][PytestRunnerNext]_vars

\* TrimTelemetryRunner.run_tests with signals.
TrimNext ==
    \/ TrRegister
    \/ TrRunTest
    \/ TrComputeSummary
    \/ TrPrintSummary
    \/ TrReturn
    \/ TrSuiteRaises
    \/ TrExceptPrint
    \/ TrReraise
    \/ TrSignal

SpecTrim == Init /\ [][TrimNext]_vars

\* The duration history grows while percentiles are asked for.
PercentileNext ==
    \/ RecordDuration /\ UNCHANGED <<sinkVars, collVars, hostVars, runVars, itrVars, psVars, thVars, bcVars>>
    \/ PercentileCall /\ UNCHANGED <<sinkVars, collVars, hostVars, runVars, itrVars, psVars, thVars, bcVars>>

SpecPercentile == Init /\ [][PercentileNext]_vars

\* Blocked network attempts are recorded while flags are asked for.
FlagsNext ==
    \/ BlockNetworkCalls /\ UNCHANGED <<sinkVars, collVars, hostVars, runVars, itrVars, psVars, thVars, bcVars>>
    \/ SocketCall /\ UNCHANGED <<sinkVars, collVars, hostVars, runVars, itrVars, psVars, thVars, bcVars>>
    \/ FlagsCall /\ UNCHANGED <<sinkVars, collVars, hostVars, runVars, itrVars, psVars, thVars, bcVars>>

SpecFlags == Init /\ [][FlagsNext]_vars

\* The host drives InstrumentedTestResult through its tests while the code
\* under test executes queries.
ResultNext ==
    \/ \E t \in Tests : ItrStartTest(t)
    \/ \E t \in Tests : ItrAddOutcome(t)
    \/ \E t \in Tests : ItrStopTest(t)
    \/ ExecuteQuery(QueryInputs) /\ UNCHANGED <<sinkVars, hostVars, trimVars>>

SpecResult == Init /\ [][ResultNext]_vars

\* The blocking collector is driven through start_test_run, start_test and
\* end_test while the main thread asks for blocked sockets.
BlockingCollectorNext ==
    \/ BcStartTestRun
    \/ BcStartTest
    \/ \E test \in TestObjects, status \in {"passed", "failed"} : BcEndTest(test, status)
    \/ BlockNetworkCalls /\ UNCHANGED <<sinkVars, collVars, hostVars, runVars, itrVars, psVars, thVars, bcVars>>
    \/ \E site \in CallSites : SocketCallAt(site, "MainThread")
          /\ UNCHANGED <<sinkVars, collVars, hostVars, runVars, itrVars, psVars, thVars, bcVars>>

SpecBlockingCollector == Init /\ [][BlockingCollectorNext]_vars

\* A blocking run: the constructor blocks the network, run_tests calls
\* start_test_run before the suite, the host drives InstrumentedTestResult
\* through its tests, and the main thread asks for sockets inside and
\* between the tests while time passes.
BlockedRunNext ==
    \/ BlockNetworkCalls /\ UNCHANGED <<sinkVars, collVars, hostVars, runVars, itrVars, psVars, thVars, bcVars>>
    \/ testsRun = 0 /\ h_cur = "none" /\ BcStartTestRun
    \/ \E t \in Tests : ItrStartTest(t)
    \/ \E t \in Tests : ItrAddOutcome(t)
    \/ \E t \in Tests : ItrStopTest(t)
    \/ SocketCallAt(CHOOSE site \in CallSites : TRUE, "MainThread")
          /\ UNCHANGED <<sinkVars, collVars, hostVars, runVars, itrVars, psVars, thVars, bcVars>>
    \/ Tick /\ UNCHANGED <<sinkVars, hostVars, trimVars>>

SpecBlockedRun == Init /\ [][BlockedRunNext]_vars

\* Runners are constructed and their run_tests executed, one at a time, in
\* any order.
RunnersNext ==
    \/ \E r \in Runners : TtrInit(r)
          /\ UNCHANGED <<sinkVars, collVars, hostVars, runVars, itrVars, psVars, thVars>>
    \/ \E r \in Runners : TtrRegister(r)
          /\ UNCHANGED <<sinkVars, collVars, hostVars, runVars, itrVars, psVars, thVars>>
    \/ \E r \in Runners : TtrEnterTry(r)
          /\ UNCHANGED <<sinkVars, collVars, hostVars, runVars, itrVars, psVars, thVars>>
    \/ \E r \in Runners, how \in RunTestsExits : TtrFinally(r, how)
          /\ UNCHANGED <<sinkVars, collVars, hostVars, runVars, itrVars, psVars, thVars>>
    \/ \E r \in Runners : TtrSignalBeforeTry(r)
          /\ UNCHANGED <<sinkVars, collVars, hostVars, runVars, itrVars, psVars, thVars>>

SpecRunners == Init /\ [][RunnersNext]_vars

\* Both attribution variants over one query log: tests run one after the
\* other under the collector of django/telemetry.py (start_test / end_test)
\* and under InstrumentedTestResult of django_runner.py (startTest /
\* stopTest), while the code under test executes queries.
AttributionNext ==
    \/ \E t \in Tests :
          /\ \A u \in TestIds : test_status[u] # "running"
          /\ StartTest(t)
          /\ UNCHANGED <<sinkVars, hostVars, trimVars>>
    \/ \E t \in Tests :
          /\ test_status[t] = "running"
          /\ EndTest(t)
          /\ UNCHANGED <<sinkVars, hostVars, trimVars>>
    \/ \E t \in Tests : ItrStartTest(t)
    \/ \E t \in Tests : ItrAddOutcome(t)
    \/ \E t \in Tests : ItrStopTest(t)
    \/ ExecuteQuery(WellFormedInputs) /\ UNCHANGED <<sinkVars, hostVars, trimVars>>

SpecAttribution == Init /\ [][AttributionNext]_vars

\* Sockets are asked for before, between and after block_network_calls and
\* restore_network_calls, while time passes.
BlockingNext ==
    \/ BlockNetworkCalls /\ UNCHANGED <<sinkVars, collVars, hostVars, runVars, itrVars, psVars, thVars, bcVars>>
    \/ RestoreNetworkCalls /\ UNCHANGED <<sinkVars, collVars, hostVars, runVars, itrVars, psVars, thVars, bcVars>>
    \/ SocketCall /\ UNCHANGED <<sinkVars, collVars, hostVars, runVars, itrVars, psVars, thVars, bcVars>>
    \/ Tick /\ UNCHANGED <<sinkVars, hostVars, trimVars>>

SpecBlocking == Init /\ [][BlockingNext]_vars

\* A run's summary is written by either collector.
SummaryNext ==
    \/ RunnerConstruct
    \/ EndTestRun
    \/ OutputSummaryCall

SpecSummary == Init /\ [][SummaryNext]_vars


SinkNext ==
    \E c \in Procs :
        \/ EnsureCheck(c) /\ UNCHANGED <<collVars, hostVars, trimVars>>
        \/ EnsureCreate(c) /\ UNCHANGED <<collVars, hostVars, trimVars>>
        \/ EnsureFail(c) /\ UNCHANGED <<collVars, hostVars, trimVars>>
        \/ SinkWrite(c) /\ UNCHANGED <<collVars, hostVars, trimVars>>

SpecSink == Init /\ [][SinkNext]_vars

-----------------------------------------------------------------------------
(* Claims about the sink *)

IsPrefix(s, t) == Len(s) <= Len(t) /\ SubSeq(t, 1, Len(s)) = s

\* A line without its line end.
Content(line) == SubSeq(line, 1, Len(line) - 1)

\* C7: when a collector has no telemetry file (it could not be created) or
\* the file write of a _write_telemetry call failed, and standard output
\* takes the print, the record is the last line of standard output and its
\* JSON content is the content the file line would have had.
C7_FallbackSink ==
    (last_write.proc # "none" /\ last_write.file # "ok" /\ last_write.stdout = "ok")
        => /\ last_write.printed
           /\ ~last_write.raised
           /\ stdout_lines # <<>>
           /\ stdout_lines[Len(stdout_lines)] = PrintLine(last_write.data)
           /\ Content(stdout_lines[Len(stdout_lines)])
                  = Content(FileLine(last_write.data))

\* C7 witness: a collector whose file could not be created and a collector
\* whose open failed have both fallen back to standard output.
C7_Witness ==
    /\ last_write.file = "open_fail"
    /\ last_write.printed
    /\ \E c \in Procs : telemetry_file[c] = "none"
    /\ Len(stdout_lines) >= 2

\* C8: no call of _write_telemetry raises into its caller.
C8_SinkNeverRaises == ~last_write.raised

\* C9: the file is append-only: every step leaves the lines already in the
\* file in place, unchanged and in order.
C9_AppendOnly == [][IsPrefix(file_lines, file_lines')]_vars

-----------------------------------------------------------------------------
(* Claims about DjangoTelemetryCollector *)

Running(t) == test_status[t] = "running"

\* C3: in a run whose scopes never overlap, the slice of the query log that
\* _collect_database_telemetry reduces for a scope is exactly the queries
\* executed between that scope's start_test and end_test, whatever the log
\* held when start_test ran.
C3_WatermarkCorrect ==
    (last_end.test # "none" /\ last_end.was_running /\ ~overlapped)
        => last_end.slice = last_end.during

\* C4: once end_test has ended the last running scope, urlopen is the
\* original implementation again and both patch markers are removed.
C4_RestoredAtZero ==
    (last_op = "end_test" /\ last_end.was_running /\ \A t \in Tests : ~Running(t))
        => /\ urlopen = "real"
           /\ ~trim_telemetry_patched
           /\ original_urlopen = "unset"

\* C5: while a scope is running the tracking wrapper stays installed over
\* the real urlopen, also after other scopes have ended, and the running
\* scope's entry holds exactly the urls opened since its start_test.
C5_PatchStaysWhileActive ==
    \A t \in Tests :
        Running(t) => /\ urlopen = "tracked"
                      /\ trim_telemetry_patched
                      /\ original_urlopen = "real"
                      /\ test_network_calls[t].st = "dict"
                      /\ test_network_calls[t].calls = scope_calls[t]

\* C5 witness: of two overlapping scopes one has ended, and a urlopen call
\* made after that has been recorded for the one still running.
C5_Witness ==
    /\ last_op = "urlopen"
    /\ last_end.was_running
    /\ \E t \in last_end.others :
           /\ Running(t)
           /\ ~Running(last_end.test)
           /\ urlopen = "tracked"
           /\ test_network_calls[t].calls # <<>>

\* sum of the numeric durations of a slice, a malformed or missing time
\* counting 0
RECURSIVE NumericTotal(_)
NumericTotal(slice) ==
    IF slice = <<>> THEN 0
    ELSE (IF Head(slice).time # Missing /\ ~Float(Head(slice).time).raises
          THEN Float(Head(slice).time).ms ELSE 0) + NumericTotal(Tail(slice))

Malformed(query) == query.time = Missing \/ Float(query.time).raises

\* C10: when the slice of a scope holds an entry whose time is non-numeric
\* or missing, end_test returns without raising and the record's
\* db_total_duration_ms is the sum of the other entries' durations.
C10_MalformedTimeIsZero ==
    (last_end.test # "none"
        /\ \E i \in 1..Len(last_end.slice) : Malformed(last_end.slice[i]))
        => /\ ~last_end.raised
           /\ last_end.record.db_total_duration_ms = NumericTotal(last_end.slice)

\* The entries of a slice whose signature is sig.
WithSignature(slice, sig) ==
    {i \in 1..Len(slice) : Signature(slice[i].sql) = sig}

\* The cumulative duration of the entries of a slice whose signature is sig.
RECURSIVE SignatureDuration(_, _)
SignatureDuration(slice, sig) ==
    IF slice = <<>> THEN 0
    ELSE (IF Signature(Head(slice).sql) = sig THEN Duration(Head(slice)) ELSE 0)
             + SignatureDuration(Tail(slice), sig)

\* C11: the record end_test returns has in db_duplicate_queries exactly one
\* group for each signature that occurs more than once among the queries
\* the scope reduced, with that signature's count and cumulative duration,
\* and no group for a signature that occurs once.
C11_DuplicateGrouping ==
    (last_end.test # "none" /\ last_end.was_running) =>
        LET slice == last_end.slice
            dups == last_end.record.db_duplicate_queries
        IN  /\ \A i \in 1..Len(slice) :
                   LET sig == Signature(slice[i].sql)
                   IN  Cardinality(WithSignature(slice, sig)) > 1 =>
                           Cardinality({j \in 1..Len(dups) :
                               /\ Signature(dups[j].sql) = sig
                               /\ dups[j].count = Cardinality(WithSignature(slice, sig))
                               /\ dups[j].total_duration_ms
                                      = SignatureDuration(slice, sig)}) = 1
            /\ \A j \in 1..Len(dups) :
                   Cardinality(WithSignature(slice, Signature(dups[j].sql))) > 1

\* C13: end_test for a test_id with no live scope does not raise and
\* returns a record with start_time = end_time, duration 0 and zero database
\* and network aggregates, whatever the query log holds.
C13_EndWithoutScope ==
    (last_end.test # "none" /\ ~last_end.was_running) =>
        /\ ~last_end.raised
        /\ last_end.record.start_time = last_end.record.end_time
        /\ last_end.record.test_duration_ms = 0
        /\ last_end.record.db_count = 0
        /\ last_end.record.db_total_duration_ms = 0
        /\ last_end.record.db_queries = <<>>
        /\ last_end.record.db_duplicate_queries = <<>>
        /\ last_end.record.net_total_calls = 0
        /\ last_end.record.net_urls = <<>>

\* C14: a start_test step leaves every scope that is running as it was: its
\* status, its start time, its query watermark and the network calls
\* captured for it; so start_test on a running test_id keeps the scope.
C14_StartWhileRunning ==
    [][last_op' = "start_test" =>
          \A t \in TestIds :
              Running(t) =>
                  /\ test_status'[t] = "running"
                  /\ test_timings'[t] = test_timings[t]
                  /\ test_queries'[t] = test_queries[t]
                  /\ test_network_calls'[t] = test_network_calls[t]]_vars

\* C15: an end_test(test_id) step leaves test_id absent from test_status,
\* test_timings, test_queries and test_network_calls, and leaves the entries
\* of every other test_id as they were.
C15_EndRemovesScope ==
    [][last_op' = "end_test" =>
          LET t == last_end'.test
          IN  /\ test_status'[t] = Absent
              /\ test_timings'[t] = NoTiming
              /\ test_queries'[t] = NoWatermark
              /\ test_network_calls'[t] = NoEntry
              /\ \A u \in TestIds \ {t} :
                     /\ test_status'[u] = test_status[u]
                     /\ test_timings'[u] = test_timings[u]
                     /\ test_queries'[u] = test_queries[u]
                     /\ test_network_calls'[u] = test_network_calls[u]]_vars

\* A running scope has just been ended while another scope, which has
\* captured a network call, keeps running.
C15_Witness ==
    /\ last_op = "end_test"
    /\ last_end.was_running
    /\ \E u \in last_end.others :
           /\ Running(u)
           /\ test_timings[u].has
           /\ test_network_calls[u].calls # <<>>

VerbOf(sql) ==
    CASE Signature(sql) = "SELECT 1" -> "SELECT"
      [] Signature(sql) = "UPDATE T" -> "UPDATE"
      [] OTHER -> "OTHER"

\* C24: in the record end_test returns for a running scope, db_count is the
\* number of queries executed in the scope, each of them is counted in the
\* verb class of its leading keyword, and the five verb counts add up to
\* db_count.
C24_VerbCounts ==
    (last_end.test # "none" /\ last_end.was_running) =>
        LET r == last_end.record
            n(verb) == Cardinality({i \in 1..Len(last_end.during) :
                                       VerbOf(last_end.during[i].sql) = verb})
        IN  /\ r.db_count = Len(last_end.during)
            /\ r.db_select_count = n("SELECT")
            /\ r.db_insert_count = n("INSERT")
            /\ r.db_update_count = n("UPDATE")
            /\ r.db_delete_count = n("DELETE")
            /\ r.db_other_count = n("OTHER")
            /\ r.db_select_count + r.db_insert_count + r.db_update_count
                   + r.db_delete_count + r.db_other_count = r.db_count

\* C27: under the per-scope patching collector every urlopen call
\* terminates after invoking the real urlopen exactly once, whatever
\* start_test and end_test calls came before it.
C27_UrlopenTerminates ==
    ps_last_call.via # "none" =>
        /\ ps_last_call.terminated
        /\ ps_last_call.forwarded = 1

\* C28: an intercepted urlopen call that interleaves with another thread's
\* start_test or end_test ends without an error of the instrumentation, with
\* the result of the real call, and its url appended to every scope that was
\* active throughout the call.
C28_ThreadSafeFanOut ==
    tracked_call.pc = "done" =>
        /\ tracked_call.error = "none"
        /\ tracked_call.real # "raised" =>
               tracked_call.stable \subseteq tracked_call.logged

\* C21: after any sequence of start_network_monitoring and
\* stop_network_monitoring calls the saved original, whenever it exists, is
\* the real urlopen and never a tracking wrapper; it exists exactly while the
\* patch marker does, and a start made while the patch is in place leaves the
\* real function saved under the wrapper it installs.
C21_IdempotentWrapping ==
    /\ original_urlopen \in {"unset", "real"}
    /\ trim_telemetry_patched <=> original_urlopen = "real"
    /\ last_op = "start_network_monitoring_patched"
           => original_urlopen = "real" /\ urlopen = "tracked"

\* Monitoring has been started while the patch was in place, after another
\* scope's monitoring had been stopped.
C21_Witness ==
    /\ last_op = "start_network_monitoring_patched"
    /\ \E t \in Tests : test_network_calls[t].st = "none"
    /\ original_urlopen = "real"

\* C20: when the log cannot be read, or the slice of a scope holds an entry
\* that is not a mapping or whose sql is not a string, end_test does not
\* raise and returns the test's record with the zero-valued database
\* statistics: counts and durations 0, empty lists, all verb counts 0.
C20_CollectNeverRaises ==
    (/\ last_end.test # "none"
     /\ \/ last_end.unreadable
        \/ \E i \in 1..Len(last_end.slice) :
               \E bad \in BadEntries : last_end.slice[i].sql = bad.sql)
        => /\ ~last_end.raised
           /\ last_end.record.id = last_end.test
           /\ last_end.record.db_count = 0
           /\ last_end.record.db_total_duration_ms = 0
           /\ last_end.record.db_queries = <<>>
           /\ last_end.record.db_duplicate_queries = <<>>
           /\ last_end.record.db_select_count = 0
           /\ last_end.record.db_insert_count = 0
           /\ last_end.record.db_update_count = 0
           /\ last_end.record.db_delete_count = 0
           /\ last_end.record.db_other_count = 0
           /\ last_end.record.db_avg_duration_ms = 0
           /\ last_end.record.db_max_duration_ms = 0

\* A running scope has ended whose slice holds a well-formed entry followed
\* by one that cannot be reduced.
C20_Witness ==
    /\ last_end.test # "none"
    /\ last_end.was_running
    /\ ~last_end.unreadable
    /\ Len(last_end.slice) = 2
    /\ last_end.slice[1].sql = "SELECT 1"
    /\ \E bad \in BadEntries : last_end.slice[2].sql = bad.sql
    /\ last_end.record.db_queries = <<>>

-----------------------------------------------------------------------------
(* Claims about the runners *)

\* The record a sink line carries.
LineData(line) == line[2]

\* A line of the sink that is the per-test record of test id t.
IsTestRecordOf(line, t) ==
    /\ "type" \notin DOMAIN LineData(line)
    /\ LineData(line).id = t

IsSummaryLine(line) ==
    /\ "type" \in DOMAIN LineData(line)
    /\ LineData(line).type = "test_run_summary"

\* What the sink holds: the file and the fallback channel.
SinkLines == file_lines \o stdout_lines

TestRecordsOf(t) ==
    Cardinality({i \in 1..Len(SinkLines) : IsTestRecordOf(SinkLines[i], t)})

TestRecords ==
    Cardinality({i \in 1..Len(SinkLines) : ~IsSummaryLine(SinkLines[i])})

SummaryLines == {i \in 1..Len(SinkLines) : IsSummaryLine(SinkLines[i])}

\* C1: between tests, the sink of the Django runner holds exactly one
\* per-test record for each test that was started and has stopped, and no
\* other per-test record.
C1_DjangoExactlyOnce ==
    h_cur = "none" =>
        /\ \A t \in h_done : TestRecordsOf(t) = 1
        /\ TestRecords = Cardinality(h_done)

\* C25: once run_tests of the Django runner has completed, the sink holds
\* exactly one test_run_summary record, it is the last record, its
\* total_tests is the number of tests run and its failed_tests is the number
\* of failures plus errors.
C25_DjangoSummary ==
    run_phase = "done" =>
        /\ Cardinality(SummaryLines) = 1
        /\ IsSummaryLine(<<"{", last_write.data, "}">>)
        /\ last_write.data.total_tests = testsRun
        /\ last_write.data.failed_tests = Len(failures) + Len(errors)

\* C26: once a pytest session run through the plugin has finished, the sink
\* holds exactly one test_run_summary record.
C26_PytestSummary ==
    run_phase = "done" => Cardinality(SummaryLines) = 1

TrimSummaries ==
    {i \in 1..Len(stdout_lines) : stdout_lines[i][1] = "TEST_SUMMARY:"}

\* C6: when a signal ends run_tests while the tests are still executing,
\* standard output holds exactly one TEST_SUMMARY line, whose exit_code is 0
\* exactly when no failure or error has been observed.
C6_SignalSafety ==
    (tr_exit = "signal" /\ tr_signal_at = "running") =>
        /\ Cardinality(TrimSummaries) = 1
        /\ \A i \in TrimSummaries :
               stdout_lines[i][3].exit_code
                   = (IF Len(failures) + Len(errors) = 0 THEN 0 ELSE 1)

\* C29: whichever way run_tests is left (return, exception, a signal at any
\* instant), standard output holds at most one TEST_SUMMARY line.
C29_AtMostOneSummary == Cardinality(TrimSummaries) <= 1

\* C30: in the run summary of the unittest runner all four counts are
\* non-negative and passed_tests + failed_tests + skipped_tests is
\* total_tests, whatever the host's results were.
C30_CountArithmetic ==
    (run_phase = "done" /\ IsSummaryLine(<<"{", last_write.data, "}">>)) =>
        LET d == last_write.data
        IN  /\ d.total_tests >= 0
            /\ d.passed_tests >= 0
            /\ d.failed_tests >= 0
            /\ d.skipped_tests >= 0
            /\ d.passed_tests + d.failed_tests + d.skipped_tests = d.total_tests

\* The statuses that name an outcome the host reported for a test: failed
\* for addFailure, error for addError, skipped for addSkip, else passed.
ReportedStatuses(outcomes) ==
    LET kinds == {outcomes[i] : i \in 1..Len(outcomes)}
        named == {s \in {"failed", "error", "skipped"} :
                     \/ s = "failed" /\ "failure" \in kinds
                     \/ s = "error" /\ "error" \in kinds
                     \/ s = "skipped" /\ "skip" \in kinds}
    IN  IF named = {} THEN {"passed"} ELSE named

\* C31: the status in the record stopTest writes for a test is the outcome
\* the host reported for that execution: failed for a failure, error for an
\* error, skipped for a skip, passed otherwise.
C31_StatusIsReportedOutcome ==
    [][\A t \in Tests :
           (h_cur = t /\ h_cur' = "none") =>
               /\ last_write'.data.id = t
               /\ last_write'.data.status \in ReportedStatuses(h_outcomes)]_vars

\* C32: end_test of the blocking collector called after start_test does not
\* raise, appends exactly one record to test_results, prints exactly one
\* TEST_RESULT line for it and leaves network_call_attempts empty; called
\* before any start_test it does nothing.
C32_EndTestRecords ==
    [][last_end_test'.seq # last_end_test.seq =>
           IF current_test_start.has
           THEN /\ last_end_test'.outcome = "recorded"
                /\ Len(test_results') = Len(test_results) + 1
                /\ test_results'[Len(test_results')].id = last_end_test'.test
                /\ Len(stdout_lines') = Len(stdout_lines) + 1
                /\ stdout_lines'[Len(stdout_lines')]
                       = MarkedLine("TEST_RESULT:", test_results'[Len(test_results')])
                /\ network_call_attempts' = <<>>
           ELSE /\ last_end_test'.outcome = "returned_early"
                /\ UNCHANGED <<test_results, stdout_lines, file_lines>>]_vars

\* C33: each _write_telemetry call (standard output working) delivers the
\* record to exactly one channel: one complete line appended to the file or
\* one line on standard output, never both, and never a partial line in the
\* file.
C33_ExactlyOneChannel ==
    [][(writes' = writes + 1 /\ last_write'.stdout = "ok") =>
           LET grew == Len(file_lines') = Len(file_lines) + 1
               inFile == grew /\ file_lines'[Len(file_lines')]
                                     = FileLine(last_write'.data)
               onStdout == stdout_lines'
                               = Append(stdout_lines, PrintLine(last_write'.data))
           IN  /\ grew \/ file_lines' = file_lines
               /\ grew => inFile
               /\ onStdout \/ stdout_lines' = stdout_lines
               /\ inFile # onStdout]_vars

\* C34: in blocking mode the record stopTest prints for a test contains only
\* attempts made between that test's start and its end: no attempt in it is
\* older than the test's start, and once reported the attempts are gone.
C34_AttemptsOfThisTest ==
    [][\A t \in Tests :
           (h_cur = t /\ h_cur' = "none" /\ Len(stdout_lines') = Len(stdout_lines) + 1) =>
               LET calls == stdout_lines'[Len(stdout_lines')][3].http_calls.external_calls
               IN  /\ network_call_attempts' = <<>>
                   /\ \A i \in 1..Len(calls) :
                          calls[i].timestamp >= current_test_start.at]_vars

\* C35: after run_tests of a blocking runner has finished through its try
\* block (return, exception or the signal handler's exit), and no other
\* runner is constructed and still to run, socket.socket is the
\* implementation that was installed before blocking began.
C35_SocketRestored ==
    (/\ \E r \in Runners : runner_exit[r] \in RunTestsExits
     /\ \A r \in Runners : runner_pc[r] \in {"new", "done"}
     /\ \A r \in Runners : runner_exit[r] # "signal_before_try")
        => socket_socket = "real"

\* C36: in the unittest runner, at every point of a run the tests held in
\* the collector's live maps with status running are exactly the tests that
\* have started and whose record has not been written yet; after the last
\* record the live maps are empty.
C36_LiveMapsFollowRecords ==
    ctor_pc[Runner] = "ready" =>
        {t \in Tests : test_status[t] = "running"}
            = {t \in Tests : t = h_cur /\ TestRecordsOf(t) = 0}

\* C37: every test the pytest session has run to its teardown has exactly
\* one per-test record in the sink, also when its setup phase skipped or
\* failed and no report for the call phase exists.
C37_PytestOneRecordEach ==
    \A t \in Tests : t \in h_done => TestRecordsOf(t) = 1

\* C38: for tests run one after the other, no query executed before a
\* scope's start_test is in the set of queries attributed to that scope, in
\* the collector that resets the log (django/telemetry.py) and in the result
\* class that does not (django_runner.py).
C38_NoEarlierQuery ==
    /\ (last_end.test # "none" /\ last_end.was_running) =>
           \A i \in 1..Len(last_end.slice) :
               \E j \in 1..Len(last_end.during) :
                   last_end.during[j] = last_end.slice[i]
    /\ last_stop.test # "none" =>
           \A i \in 1..Len(last_stop.slice) :
               last_stop.slice[i].qid > last_stop.before

\* Both variants have attributed a query to a test that started after an
\* earlier query was in the log.
C38_Witness ==
    /\ last_end.test # "none" /\ last_end.was_running
    /\ Len(last_end.slice) > 0
    /\ last_end.slice[1].qid > 1
    /\ last_stop.test # "none"
    /\ Len(last_stop.slice) > 0
    /\ last_stop.before > 0

-----------------------------------------------------------------------------
(* Claims about the aggregation functions *)

\* The percentile the last _calculate_percentile call was asked for, exactly,
\* in thousandths of a millisecond: 0 for an empty history, the single value
\* for n = 1, else the value at index p/100*(n-1) of the sorted history,
\* interpolated between the floor and ceil elements by the fractional part.
ExactPercentile ==
    LET h == Sorted(agg_last.durations)
        n == Len(h)
        i100 == agg_last.percentile * (n - 1)
        floor == i100 \div 100
        ceil == IF i100 % 100 = 0 THEN floor ELSE floor + 1
    IN  IF n = 0 THEN 0
        ELSE IF n = 1 THEN 100 * h[1]
        ELSE 100 * h[floor + 1] + (i100 % 100) * (h[ceil + 1] - h[floor + 1])

\* C12, as stated: _calculate_percentile returns the exact percentile.
C12_PercentileExact ==
    agg_last.op = "percentile" => 1000 * agg_last.result = ExactPercentile

\* C12, amended: _calculate_percentile returns the exact percentile rounded
\* to the nearest integer, a tie going to the even one; so [10, 20, 30]
\* gives 20 for p50, [42] gives 42 and the empty history gives 0.
C12_PercentileRounded ==
    agg_last.op = "percentile" =>
        LET d == 1000 * agg_last.result - ExactPercentile
        IN  /\ -500 <= d /\ d <= 500
            /\ (d = 500 \/ d = -500) => agg_last.result % 2 = 0
            /\ (agg_last.durations = <<100, 200, 300>> /\ agg_last.percentile = 50)
                   => agg_last.result = 20
            /\ agg_last.durations = <<420>> => agg_last.result = 42
            /\ agg_last.durations = <<>> => agg_last.result = 0

\* A percentile interpolated between two elements and then rounded.
C12_Witness ==
    /\ agg_last.op = "percentile"
    /\ Len(agg_last.durations) = 3
    /\ (agg_last.percentile * 2) % 100 # 0
    /\ ExactPercentile % 1000 # 0

\* C19: in the flags of a test, very_slow is present iff duration_ms > 5000,
\* otherwise slow iff duration_ms > 2000; high_db_queries iff the query
\* count > 100, otherwise moderate_db_queries iff it is > 50;
\* network_calls_blocked iff a network attempt was recorded.
C19_PerformanceFlags ==
    agg_last.op = "flags" =>
        LET f == agg_last.flags
            d == agg_last.duration
            q == agg_last.query_count
        IN  /\ InList("very_slow", f) <=> d > 5000
            /\ InList("slow", f) <=> (d > 2000 /\ d <= 5000)
            /\ InList("high_db_queries", f) <=> q > 100
            /\ InList("moderate_db_queries", f) <=> (q > 50 /\ q <= 100)
            /\ InList("network_calls_blocked", f) <=> agg_last.attempts > 0

\* C22: between block_network_calls and restore_network_calls every call of
\* socket.socket raises instead of connecting and appends exactly one entry
\* {file, line, function, thread, timestamp} of the caller to
\* network_call_attempts; outside that window the call connects and nothing
\* is recorded.
C22_BlockingPolicy ==
    [][ (last_socket' # last_socket \/ network_call_attempts' # network_call_attempts)
          => /\ last_socket'.via = socket_socket
             /\ (original_socket # "unset")
                   => /\ last_socket'.outcome = "raised"
                      /\ network_call_attempts' =
                             Append(network_call_attempts,
                                    [timestamp |-> now,
                                     file |-> last_socket'.site.file,
                                     line |-> last_socket'.site.line,
                                     function |-> last_socket'.site.function,
                                     thread |-> last_socket'.thread])
             /\ (original_socket = "unset")
                   => /\ last_socket'.outcome = "connected"
                      /\ network_call_attempts' = network_call_attempts ]_vars

\* A second attempt has been blocked and recorded, on another thread and at
\* a later time than the first.
C22_Witness ==
    /\ original_socket = "real"
    /\ last_socket.via = "blocked"
    /\ Len(network_call_attempts) = 2
    /\ network_call_attempts[1].thread # network_call_attempts[2].thread
    /\ network_call_attempts[1].timestamp < network_call_attempts[2].timestamp

\* C23: when the slice of a test holds an entry whose time is not a number,
\* stopTest returns normally, the host's stopTest is called, and the test's
\* TEST_RESULT line is printed with that entry's duration counted as 0.
C23_StopTestTolerant ==
    (last_stop.test # "none"
        /\ \E i \in 1..Len(last_stop.slice) : Malformed(last_stop.slice[i]))
        => /\ ~last_stop.raised
           /\ last_stop.host_stopped
           /\ last_stop.printed
           /\ stdout_lines[Len(stdout_lines)][3].database_queries.total_duration
                  = NumericTotal(last_stop.slice)

\* C18: the summary end_test_run prints and the summary output_test_summary
\* writes have exit_code 0 if and only if the failed_tests passed in is 0,
\* and 1 otherwise.
C18_ExitCode ==
    /\ agg_last.op = "end_test_run" =>
           /\ agg_last.summary.exit_code \in {0, 1}
           /\ agg_last.summary.exit_code = 0 <=> agg_last.failed_tests = 0
           /\ stdout_lines[Len(stdout_lines)][3] = agg_last.summary
    /\ agg_last.op = "output_test_summary" =>
           /\ last_write.data.exit_code \in {0, 1}
           /\ last_write.data.exit_code = 0 <=> agg_last.failed_tests = 0
           /\ last_write.data.failed_tests = agg_last.failed_tests

\* output_test_summary has written the summary of a run with two failed
\* tests.
C18_Witness ==
    /\ agg_last.op = "output_test_summary"
    /\ agg_last.failed_tests = 2
    /\ last_write.data.exit_code = 1

=============================================================================
